----------------------------- MODULE WaitlistProofs ---------------------------
EXTENDS Waitlist, FiniteSetTheorems, TLAPS

\* take n with order by joinedAt leaves out nobody who joined before one it takes.
LEMMA OldestFirst ==
  ASSUME NEW S \in SUBSET EntryIds, NEW n \in Counts, NEW T \in Oldest(S, n),
         NEW e \in T, NEW f \in S, Earlier(f, e),
         \A g \in S : entry[g].joined \in Nat
  PROVE  f \in T
<1> DEFINE B(x) == {g \in S : Earlier(g, x)}
<1> USE WaitlistAssumption
<1>1. e \in S /\ Cardinality(B(e)) < n
  BY DEF Oldest
<1>2. B(f) \subseteq B(e)
  BY <1>1 DEF Earlier
<1>3. IsFiniteSet(B(e))
  BY FS_Subset
<1>4. /\ Cardinality(B(f)) <= Cardinality(B(e))
      /\ Cardinality(B(e)) \in Nat /\ Cardinality(B(f)) \in Nat
  <2>1. IsFiniteSet(B(f)) /\ Cardinality(B(f)) <= Cardinality(B(e))
    BY <1>2, <1>3, FS_Subset
  <2> QED
    BY <1>3, <2>1, FS_CardinalityType
<1>5. Cardinality(B(f)) < n
  <2>1. n \in Nat
    OBVIOUS
  <2> HIDE DEF B
  <2> QED
    BY <1>1, <1>4, <2>1
<1> QED
  BY <1>5 DEF Oldest

\* The empty list satisfies the invariant.
LEMMA InitListInv == Init => ListInv
BY WaitlistAssumption
DEF Init, ListInv, TypeOK, AheadOK, InsertsOK, BatchesOK, FirstComeFirstServed,
   Places, Phases

\* A step that changes no row leaves the list as it was; what a call holds must
\* still fit.
LEMMA QuietInv ==
  ASSUME ListInv, UNCHANGED rows, TypeOK', InsertsOK', BatchesOK'
  PROVE  ListInv'
BY DEF ListInv, rows, AheadOK, FirstComeFirstServed, Mailable, Earlier

\* A join that starts inserts nothing yet.
LEMMA StartJoinInv ==
  ASSUME ListInv, NEW c \in Calls, NEW u \in Users, StartJoin(c, u)
  PROVE  ListInv'
<1> USE WaitlistAssumption
<1>1. TypeOK'
  BY DEF ListInv, TypeOK, StartJoin, Goto, Phases, rows, history, lists
<1>2. InsertsOK'
  BY DEF ListInv, TypeOK, InsertsOK, StartJoin, Goto, Phases, rows, lists
<1>3. BatchesOK'
  BY DEF ListInv, TypeOK, BatchesOK, First, Earlier, Mailable, StartJoin, Goto,
     Phases, rows, lists
<1> QED
  BY <1>1, <1>2, <1>3, QuietInv DEF StartJoin, lists

\* A new row comes after everything on the list.
LEMMA InsertInv ==
  ASSUME ListInv, NEW c \in Calls, NEW e \in EntryIds, Insert(c, e)
  PROVE  ListInv'
<1> USE WaitlistAssumption
<1>1. req[c] \in Users /\ OnList \subseteq EntryIds
  BY DEF ListInv, InsertsOK, Insert, OnList, lists
<1>2. TypeOK'
  BY <1>1 DEF ListInv, TypeOK, Insert, Goto, Phases, Places, Entry, history, lists
<1>3. /\ \A x \in EntryIds \ {e} : entry'[x] = entry[x] /\ place'[x] = place[x]
      /\ entry'[e] = [user |-> req[c], joined |-> clock, ahead |-> OnList]
      /\ place'[e] = "inserting" /\ place[e] = "unused"
      /\ clock' = clock + 1 /\ clock \in Nat /\ deleted' = deleted /\ batch' = batch
      /\ pc'[c] = "commit" /\ req'[c] = e
      /\ \A d \in Calls \ {c} : pc'[d] = pc[d] /\ req'[d] = req[d]
      /\ pc[c] = "insert"
  BY DEF ListInv, TypeOK, Insert, Goto, Phases, lists
<1>4. \A x \in EntryIds : place[x] # "unused" =>
        entry[x].joined \in Nat /\ entry[x].ahead \subseteq EntryIds
  BY DEF ListInv, TypeOK, Entry
<1>5. AheadOK'
  <2> SUFFICES ASSUME NEW x \in EntryIds, place'[x] # "unused"
               PROVE  /\ entry'[x].joined < clock'
                      /\ \A f \in entry'[x].ahead :
                           place'[f] \notin {"unused", "inserting"} /\ Earlier(f, x)'
    BY DEF AheadOK
  <2>1. CASE x = e
    BY <1>3, <1>4, <2>1 DEF ListInv, AheadOK, Earlier, OnList
  <2>2. CASE x # e
    BY <1>3, <1>4, <2>2 DEF ListInv, AheadOK, Earlier
  <2> QED
    BY <2>1, <2>2
<1>6. InsertsOK'
  BY <1>3 DEF ListInv, InsertsOK
<1>7. BatchesOK'
  BY <1>3, <1>4 DEF ListInv, TypeOK, BatchesOK, First, Earlier, Mailable
<1>8. FirstComeFirstServed'
  BY <1>3, <1>4 DEF ListInv, AheadOK, FirstComeFirstServed, Mailable
<1> QED
  BY <1>2, <1>5, <1>6, <1>7, <1>8 DEF ListInv

\* What a call that returns leaves behind.
LEMMA ReturnFacts ==
  ASSUME ListInv, NEW c \in Calls, Return(c)
  PROVE  /\ pc' \in [Calls -> Phases] /\ req' \in [Calls -> Users \cup EntryIds \cup {None}]
         /\ batch' \in [Calls -> SUBSET EntryIds] /\ shared' \in [Calls -> SUBSET EntryIds]
         /\ pc'[c] = "idle" /\ batch'[c] = {}
         /\ \A d \in Calls \ {c} : pc'[d] = pc[d] /\ req'[d] = req[d] /\ batch'[d] = batch[d]
BY DEF ListInv, TypeOK, Return, Goto, Phases

\* A call that returns and takes at most one row off the list, or adds one that
\* is in no entry's way.
LEMMA ReturnInv ==
  ASSUME ListInv, NEW c \in Calls, Return(c), UNCHANGED <<entry, deleted, clock>>,
         place' \in [EntryIds -> Places], mailed' = mailed, unsaved' \subseteq EntryIds,
         \A e \in EntryIds :
           \/ place'[e] = place[e]
           \/ place[e] \notin {"unused", "inserting"} /\ place'[e] = "gone"
           \/ /\ place[e] = "inserting" /\ place'[e] \in {"waiting", "gone"}
              /\ pc[c] = "commit" /\ req[c] = e
  PROVE  ListInv'
<1>1. TypeOK'
  BY ReturnFacts DEF ListInv, TypeOK
<1>2. AheadOK'
  BY DEF ListInv, TypeOK, Entry, AheadOK, Earlier
<1>3. InsertsOK'
  BY ReturnFacts DEF ListInv, InsertsOK
<1>4. \A x \in EntryIds : place[x] # "unused" => entry[x].ahead \subseteq EntryIds
  BY WaitlistAssumption DEF ListInv, TypeOK, Entry
<1>5. BatchesOK'
  <2> SUFFICES ASSUME NEW d \in Calls
               PROVE  /\ \A e \in batch'[d] :
                           /\ place'[e] \notin {"unused", "inserting"}
                           /\ \A f \in entry'[e].ahead :
                                place'[f] = "waiting" => f \in batch'[d] \/ ~Mailable(f)'
                      /\ pc'[d] \in {"compare", "update", "restore"} => First(d, req[d])'
    BY DEF BatchesOK
  <2>1. CASE d = c
    BY <2>1, ReturnFacts
  <2>2. CASE d # c
    BY <1>4, <2>2, ReturnFacts
    DEF ListInv, TypeOK, BatchesOK, AheadOK, First, Earlier, Mailable
  <2> QED
    BY <2>1, <2>2
<1>6. FirstComeFirstServed'
  BY <1>4 DEF ListInv, AheadOK, FirstComeFirstServed, Mailable
<1> QED
  BY <1>1, <1>2, <1>3, <1>5, <1>6 DEF ListInv

\* A commit, a removal, the end of a notification and a failure all return.
LEMMA ReturnsInv ==
  ASSUME ListInv, NEW c \in Calls, CommitInsert(c) \/ Remove(c) \/ EndNotify(c) \/ Fails(c)
  PROVE  ListInv'
<1>1. Return(c) /\ UNCHANGED <<entry, deleted, clock>>
  BY DEF CommitInsert, Remove, EndNotify, Fails, rows
<1>2. place \in [EntryIds -> Places]
  BY DEF ListInv, TypeOK
<1>3. mailed' = mailed /\ unsaved' \subseteq EntryIds
  <2>1. Saving(c) => req[c] \in EntryIds
    BY DEF Saving, ListInv, TypeOK, BatchesOK, First
  <2> QED
    BY <2>1 DEF CommitInsert, Remove, EndNotify, Fails, history, ListInv, TypeOK
<1>4. CASE CommitInsert(c)
  <2>1. pc[c] = "commit" /\ req[c] \in EntryIds /\ place[req[c]] = "inserting"
    BY <1>4 DEF CommitInsert, ListInv, InsertsOK
  <2>2. place' = [place EXCEPT ![req[c]] = "waiting"]
    BY <1>4 DEF CommitInsert
  <2> QED
    BY <1>1, <1>2, <1>3, <2>1, <2>2, ReturnInv DEF Places
<1>5. CASE Remove(c)
  <2>1. req[c] \in EntryIds /\ place[req[c]] \notin {"unused", "inserting"}
    BY <1>5 DEF Remove, ListInv, InsertsOK
  <2>2. place' = [place EXCEPT ![req[c]] = "gone"]
    BY <1>5 DEF Remove
  <2> QED
    BY <1>1, <1>2, <1>3, <2>1, <2>2, ReturnInv DEF Places
<1>6. CASE EndNotify(c)
  BY <1>1, <1>2, <1>3, <1>6, ReturnInv DEF EndNotify, rows
<1>7. CASE Fails(c)
  <2>1. pc[c] = "commit" => req[c] \in EntryIds /\ place[req[c]] = "inserting"
    BY DEF ListInv, InsertsOK
  <2>2. place' = [e \in EntryIds |->
                    IF pc[c] = "commit" /\ e = req[c] THEN "gone" ELSE place[e]]
    BY <1>7 DEF Fails
  <2> QED
    BY <1>1, <1>2, <1>3, <2>1, <2>2, ReturnInv DEF Places
<1> QED
  BY <1>4, <1>5, <1>6, <1>7

\* A user who leaves has found an entry on the list.
LEMMA StartLeaveInv ==
  ASSUME ListInv, NEW c \in Calls, NEW e \in EntryIds, StartLeave(c, e)
  PROVE  ListInv'
<1>1. TypeOK'
  BY DEF ListInv, TypeOK, StartLeave, Goto, Phases, rows, history, lists
<1>2. InsertsOK'
  BY DEF ListInv, TypeOK, InsertsOK, StartLeave, Goto, Phases, rows, OnList, lists
<1>3. BatchesOK'
  BY DEF ListInv, TypeOK, BatchesOK, First, Earlier, Mailable, StartLeave, Goto,
     Phases, rows, lists
<1> QED
  BY <1>1, <1>2, <1>3, QuietInv DEF StartLeave, lists

\* The entries found are the first of the list, so the batch has with an entry all
\* that must be notified before it.
LEMMA StartNotifyInv ==
  ASSUME ListInv, NEW c \in Calls, NEW n \in Counts, StartNotify(c, n)
  PROVE  ListInv'
<1> USE WaitlistAssumption
<1>1. PICK T \in Oldest(Waiting, n) :
        batch' = [batch EXCEPT ![c] = {e \in T : Mailable(e)}]
  BY DEF StartNotify
<1>2. T \subseteq Waiting /\ Waiting \subseteq EntryIds
  BY DEF Oldest, Waiting
<1>3. TypeOK'
  BY <1>1, <1>2 DEF ListInv, TypeOK, StartNotify, Goto, Phases, rows, history
<1>4. InsertsOK'
  BY DEF ListInv, TypeOK, InsertsOK, StartNotify, Goto, Phases, rows
<1>5. ASSUME NEW e \in T, NEW f \in entry[e].ahead, place[f] = "waiting"
      PROVE  f \in T
  <2>1. e \in EntryIds /\ place[e] = "waiting"
    BY <1>2 DEF Waiting
  <2>2. Earlier(f, e) /\ f \in EntryIds
    BY <2>1, <1>5 DEF ListInv, TypeOK, AheadOK, Entry
  <2>3. f \in Waiting
    BY <2>2, <1>5 DEF Waiting
  <2>4. \A g \in Waiting : entry[g].joined \in Nat
    BY DEF Waiting, ListInv, TypeOK, Entry
  <2> QED
    BY <1>2, <2>2, <2>3, <2>4, OldestFirst
<1>6. BatchesOK'
  <2> SUFFICES ASSUME NEW d \in Calls
               PROVE  /\ \A e \in batch'[d] :
                           /\ place'[e] \notin {"unused", "inserting"}
                           /\ \A f \in entry'[e].ahead :
                                place'[f] = "waiting" => f \in batch'[d] \/ ~Mailable(f)'
                      /\ pc'[d] \in {"compare", "update", "restore"} => First(d, req[d])'
    BY DEF BatchesOK
  <2>1. CASE d = c
    <3>1. batch'[c] = {e \in T : Mailable(e)} /\ pc'[c] = "send"
      BY <1>1 DEF ListInv, TypeOK, StartNotify, Goto
    <3> QED
      BY <1>2, <1>5, <2>1, <3>1 DEF StartNotify, rows, Mailable, Waiting
  <2>2. CASE d # c
    BY <1>1, <2>2
    DEF ListInv, TypeOK, BatchesOK, First, Earlier, Mailable, StartNotify, Goto, rows
  <2> QED
    BY <2>1, <2>2
<1> QED
  BY <1>3, <1>4, <1>6, QuietInv DEF StartNotify

\* A mail goes to the first entry of the batch.
LEMMA SendMailInv ==
  ASSUME ListInv, NEW c \in Calls, NEW e \in EntryIds, SendMail(c, e)
  PROVE  ListInv'
<1>1. TypeOK'
  BY DEF ListInv, TypeOK, SendMail, Goto, Phases, rows, history, lists
<1>2. InsertsOK'
  BY DEF ListInv, TypeOK, InsertsOK, SendMail, Goto, Phases, rows, lists
<1>3. BatchesOK'
  BY DEF ListInv, TypeOK, BatchesOK, First, Earlier, Mailable, SendMail, Goto,
     Phases, rows, lists
<1> QED
  BY <1>1, <1>2, <1>3, QuietInv DEF SendMail, lists

\* The first entry of a batch is notified: what was ahead of it and still waits
\* would be in the batch and come first.
LEMMA NotifiedInv ==
  ASSUME ListInv, NEW c \in Calls, UpdateEntry(c) \/ RestoreEntry(c)
  PROVE  ListInv'
<1> USE WaitlistAssumption
<1> DEFINE e == req[c]
<1>1. Notified(c) /\ First(c, e) /\ e \in batch[c] /\ e \in EntryIds
  BY DEF UpdateEntry, RestoreEntry, ListInv, TypeOK, BatchesOK, First, NextEntry
<1>2. place[e] \notin {"unused", "inserting"}
  BY <1>1 DEF ListInv, BatchesOK
<1>3. PICK x \in EntryIds : x = e
  BY <1>1
<1>4. /\ \A y \in EntryIds \ {x} : place'[y] = place[y]
      /\ place'[x] = "notified" /\ UNCHANGED <<entry, deleted, clock, mailed, unsaved>>
      /\ pc'[c] = "send" /\ batch'[c] = batch[c] \ {x}
      /\ \A d \in Calls \ {c} : pc'[d] = pc[d] /\ req'[d] = req[d] /\ batch'[d] = batch[d]
  BY <1>1, <1>3 DEF Notified, Goto, ListInv, TypeOK, history, NextEntry
<1>5. \A y \in EntryIds : place[y] # "unused" => entry[y].ahead \subseteq EntryIds
  BY DEF ListInv, TypeOK, Entry
<1>6. TypeOK'
  <2>1. pc' \in [Calls -> Phases] /\ req' \in [Calls -> Users \cup EntryIds \cup {None}]
    BY <1>1 DEF ListInv, TypeOK, Notified, Goto, Phases, NextEntry
  <2>2. /\ batch' \in [Calls -> SUBSET EntryIds] /\ shared' \in [Calls -> SUBSET EntryIds]
        /\ place' \in [EntryIds -> Places]
    BY <1>1 DEF ListInv, TypeOK, Notified, Places, NextEntry
  <2>3. \A y \in EntryIds : place'[y] # "unused" => entry'[y] # None
    BY <1>2, <1>3, <1>4 DEF ListInv, TypeOK
  <2> QED
    BY <1>4, <2>1, <2>2, <2>3 DEF ListInv, TypeOK
<1>7. place[x] \notin {"unused", "inserting"} /\ First(c, x)
  BY <1>1, <1>2, <1>3
<1> HIDE DEF e
<1>8. AheadOK'
  BY <1>4, <1>5, <1>7 DEF ListInv, AheadOK, Earlier
<1>9. InsertsOK'
  BY <1>4, <1>7 DEF ListInv, InsertsOK
<1>10. BatchesOK'
  BY <1>4, <1>5, <1>7 DEF ListInv, TypeOK, BatchesOK, First, Earlier, Mailable
<1>11. \A f \in entry[x].ahead : place[f] = "waiting" => ~Mailable(f)
  <2> SUFFICES ASSUME NEW f \in entry[x].ahead, place[f] = "waiting", Mailable(f)
               PROVE  FALSE
    OBVIOUS
  <2>1. x \in batch[c] /\ f \in batch[c]
    BY <1>7 DEF First, ListInv, BatchesOK
  <2>2. Earlier(f, x) /\ f \in EntryIds
    BY <1>5, <1>7 DEF ListInv, AheadOK
  <2>3. f = x \/ Earlier(x, f)
    BY <1>7, <2>1 DEF First
  <2>4. entry[x].joined \in Nat /\ entry[f].joined \in Nat
    BY <1>7, <2>2 DEF ListInv, TypeOK, AheadOK, Entry
  <2> QED
    BY <2>2, <2>3, <2>4 DEF Earlier
<1>12. FirstComeFirstServed'
  BY <1>4, <1>5, <1>7, <1>11 DEF ListInv, FirstComeFirstServed, Mailable
<1> QED
  BY <1>6, <1>8, <1>9, <1>10, <1>12 DEF ListInv

\* The comparison of a save, and an update of a row that is gone, change no row.
LEMMA NotNotifiedInv ==
  ASSUME ListInv, NEW c \in Calls, CompareEntry(c) \/ UpdateNothing(c)
  PROVE  ListInv'
<1> USE WaitlistAssumption
<1>1. UNCHANGED rows
  BY DEF CompareEntry, UpdateNothing, rows, lists, NextEntry
<1>2. /\ \A d \in Calls \ {c} : pc'[d] = pc[d] /\ req'[d] = req[d] /\ batch'[d] = batch[d]
      /\ pc[c] \in {"compare", "update"}
      /\ \/ pc'[c] = "send" /\ batch'[c] = batch[c] \ {req[c]} /\ place[req[c]] = "gone"
         \/ pc'[c] \in {"update", "restore"} /\ batch'[c] = batch[c] /\ req'[c] = req[c]
  BY DEF CompareEntry, UpdateNothing, Goto, ListInv, TypeOK, lists, NextEntry
<1>3. TypeOK'
  BY <1>1 DEF CompareEntry, UpdateNothing, Goto, Phases, ListInv, TypeOK, rows,
     history, lists, NextEntry
<1>4. InsertsOK'
  BY <1>1, <1>2 DEF ListInv, InsertsOK, rows
<1>5. BatchesOK'
  BY <1>1, <1>2 DEF ListInv, BatchesOK, First, Earlier, Mailable, rows
<1> QED
  BY <1>1, <1>3, <1>4, <1>5, QuietInv

\* An account that is deleted is mailed no more.
LEMMA DeleteAccountInv ==
  ASSUME ListInv, NEW u \in Users, DeleteAccount(u)
  PROVE  ListInv'
<1>1. TypeOK'
  BY DEF ListInv, TypeOK, DeleteAccount, local, history, lists
<1>2. AheadOK' /\ InsertsOK'
  BY DEF ListInv, AheadOK, InsertsOK, Earlier, DeleteAccount, local, lists
<1>3. BatchesOK' /\ FirstComeFirstServed'
  BY DEF ListInv, BatchesOK, FirstComeFirstServed, First, Earlier, Mailable,
     DeleteAccount, local, lists
<1> QED
  BY <1>1, <1>2, <1>3 DEF ListInv

-------------------------------------------------------------------------------
\* Every step preserves the invariant.
LEMMA NextListInv == ListInv /\ [Next]_vars => ListInv'
<1> SUFFICES ASSUME ListInv, [Next]_vars PROVE ListInv'
  OBVIOUS
<1>1. CASE UNCHANGED vars
  BY <1>1 DEF vars, rows, local, history, ListInv, TypeOK, AheadOK, InsertsOK, BatchesOK,
     FirstComeFirstServed, First, Earlier, Mailable, lists
<1>2. ASSUME NEW c \in Calls, Step(c)
      PROVE  ListInv'
  BY <1>2, StartJoinInv, InsertInv, ReturnsInv, StartLeaveInv, StartNotifyInv,
     SendMailInv, NotifiedInv, NotNotifiedInv
  DEF Step
<1>3. ASSUME NEW u \in Users, DeleteAccount(u)
      PROVE  ListInv'
  BY <1>3, DeleteAccountInv
<1> QED
  BY <1>1, <1>2, <1>3 DEF Next

\* The mails stay accounted for when every row that starts to wait was not on the
\* list before, and every call that was saving still is, or has failed, or its
\* entry waits no more.
LEMMA MailsStay ==
  ASSUME ListInv, MailsOK, mailed' = mailed, unsaved \subseteq unsaved',
         \A e \in EntryIds :
           \/ place'[e] = place[e]
           \/ place[e] \notin {"unused", "inserting"} /\ place'[e] \in {"notified", "gone"}
           \/ place[e] \in {"unused", "inserting"},
         \A c \in Calls : Saving(c) =>
           \/ Saving(c)' /\ req'[c] = req[c]
           \/ req[c] \in unsaved'
           \/ place'[req[c]] # "waiting"
  PROVE  MailsOK'
<1>1. ASSUME NEW e \in mailed
      PROVE  /\ place'[e] \notin {"unused", "inserting"}
             /\ place'[e] = "waiting" => place[e] = "waiting"
  <2>1. e \in EntryIds /\ place[e] \notin {"unused", "inserting"}
    BY DEF ListInv, TypeOK, MailsOK
  <2> QED BY <2>1
<1>2. ASSUME NEW e \in mailed \ unsaved', place'[e] = "waiting"
      PROVE  \E c \in Calls : Saving(c)' /\ req'[c] = e
  <2>1. PICK c \in Calls : Saving(c) /\ req[c] = e
    BY <1>1, <1>2 DEF MailsOK
  <2> QED BY <1>2, <2>1
<1> QED BY <1>1, <1>2 DEF MailsOK

\* What the other calls hold, in every step of c.
LEMMA OthersKept ==
  ASSUME ListInv, NEW c \in Calls, Step(c)
  PROVE  \A d \in Calls \ {c} : pc'[d] = pc[d] /\ req'[d] = req[d]
BY DEF ListInv, TypeOK, Step, StartJoin, Insert, CommitInsert, StartLeave, Remove,
   StartNotify,
   SendMail, CompareEntry, UpdateEntry, UpdateNothing, RestoreEntry, Notified, EndNotify, Fails,
   Return, Goto, lists, NextEntry

\* Every step of a call keeps the mails accounted for.
LEMMA StepMails ==
  ASSUME ListInv, MailsOK, NEW c \in Calls, Step(c)
  PROVE  MailsOK'
<1> USE DEF Saving
<1>1. \A d \in Calls \ {c} : Saving(d) => Saving(d)' /\ req'[d] = req[d]
  BY OthersKept
<1>2. place \in [EntryIds -> Places] /\ pc \in [Calls -> Phases]
      /\ req \in [Calls -> Users \cup EntryIds \cup {None}]
  BY DEF ListInv, TypeOK
<1>3. ASSUME NEW u \in Users, StartJoin(c, u)
      PROVE  MailsOK'
  BY <1>1, <1>3, MailsStay DEF StartJoin, rows, history, lists
<1>4. ASSUME NEW e \in EntryIds, Insert(c, e)
      PROVE  MailsOK'
  BY <1>1, <1>2, <1>4, MailsStay DEF Insert, history, lists
<1>5. CASE CommitInsert(c)
  <2>1. req[c] \in EntryIds /\ place[req[c]] = "inserting"
    BY <1>5 DEF CommitInsert, ListInv, InsertsOK
  <2> QED BY <1>1, <1>2, <1>5, <2>1, MailsStay DEF CommitInsert, history
<1>6. ASSUME NEW e \in EntryIds, StartLeave(c, e)
      PROVE  MailsOK'
  BY <1>1, <1>6, MailsStay DEF StartLeave, rows, history, lists
<1>7. CASE Remove(c)
  <2>1. req[c] \in EntryIds /\ place[req[c]] \notin {"unused", "inserting"}
    BY <1>7 DEF Remove, ListInv, InsertsOK
  <2> QED BY <1>1, <1>2, <1>7, <2>1, MailsStay DEF Remove, history
<1>8. ASSUME NEW n \in Counts, StartNotify(c, n)
      PROVE  MailsOK'
  BY <1>1, <1>8, MailsStay DEF StartNotify, rows, history
<1>9. ASSUME NEW e \in EntryIds, SendMail(c, e)
      PROVE  MailsOK'
  <2>1. place[e] \notin {"unused", "inserting"}
    BY <1>9 DEF SendMail, First, ListInv, BatchesOK, lists
  <2>2. /\ UNCHANGED <<place, unsaved>> /\ mailed' = mailed \cup {e}
        /\ Saving(c)' /\ req'[c] = e /\ ~Saving(c)
    BY <1>2, <1>9 DEF SendMail, Goto, rows, lists
  <2>3. ASSUME NEW f \in mailed' \ unsaved', place'[f] = "waiting"
        PROVE  \E d \in Calls : Saving(d)' /\ req'[d] = f
    <3>1. CASE f = e
      BY <2>2, <3>1
    <3>2. CASE f # e
      <4>1. PICK d \in Calls : Saving(d) /\ req[d] = f
        BY <2>2, <2>3, <3>2 DEF MailsOK
      <4> QED BY <1>1, <2>2, <4>1
    <3> QED BY <3>1, <3>2
  <2> QED BY <2>1, <2>2, <2>3 DEF MailsOK
<1>10. CASE CompareEntry(c)
  BY <1>1, <1>2, <1>10, MailsStay DEF CompareEntry, Goto, rows, history, lists
<1>11. CASE UpdateEntry(c) \/ RestoreEntry(c)
  <2>1. Saving(c) /\ First(c, req[c])
    BY <1>11 DEF UpdateEntry, RestoreEntry, ListInv, BatchesOK, NextEntry
  <2>2. req[c] \in EntryIds /\ place[req[c]] \notin {"unused", "inserting"}
    BY <2>1 DEF First, ListInv, TypeOK, BatchesOK
  <2>3. place' = [place EXCEPT ![req[c]] = "notified"] /\ UNCHANGED <<mailed, unsaved>>
    BY <1>11 DEF UpdateEntry, RestoreEntry, Notified, history, NextEntry
  <2> QED BY <1>1, <1>2, <2>2, <2>3, MailsStay
<1>12. CASE UpdateNothing(c)
  BY <1>1, <1>12, MailsStay DEF UpdateNothing, rows, history, NextEntry
<1>13. CASE EndNotify(c)
  BY <1>1, <1>13, MailsStay DEF EndNotify, rows, history
<1>14. CASE Fails(c)
  <2>1. pc[c] = "commit" => req[c] \in EntryIds /\ place[req[c]] = "inserting"
    BY DEF ListInv, InsertsOK
  <2>2. /\ place' = [e \in EntryIds |->
                       IF pc[c] = "commit" /\ e = req[c] THEN "gone" ELSE place[e]]
        /\ mailed' = mailed /\ unsaved \subseteq unsaved'
        /\ Saving(c) => req[c] \in unsaved'
    BY <1>14 DEF Fails
  <2> QED BY <1>1, <1>2, <2>1, <2>2, MailsStay
<1> QED
  BY <1>3, <1>4, <1>5, <1>6, <1>7, <1>8, <1>9, <1>10, <1>11, <1>12, <1>13, <1>14 DEF Step

\* A call that drops an entry, or all of them, leaves what calls share as it was.
LEMMA SharedStays ==
  ASSUME ListInv, SharedOK, NEW c \in Calls, mailed' = mailed, unsaved \subseteq unsaved',
         \A d \in Calls \ {c} : /\ pc'[d] = pc[d] /\ req'[d] = req[d]
                                 /\ batch'[d] = batch[d] /\ shared'[d] = shared[d],
         \/ /\ batch'[c] = batch[c] /\ shared'[c] = shared[c]
            /\ Saving(c) => Saving(c)' /\ req'[c] = req[c]
         \/ batch'[c] = batch[c] \ {req[c]} /\ shared'[c] = shared[c] \ {req[c]}
         \/ batch'[c] = {}
  PROVE  SharedOK'
<1>1. ASSUME NEW x \in Calls, NEW y \in Calls \ {x}
      PROVE  batch'[x] \cap batch'[y] \subseteq shared'[x]
  BY <1>1 DEF SharedOK
<1>2. ASSUME NEW x \in Calls, NEW e \in batch'[x] \cap mailed
      PROVE  e \in unsaved' \cup shared'[x] \/ (Saving(x)' /\ req'[x] = e)
  <2>1. CASE x = c
    BY <1>2, <2>1 DEF SharedOK
  <2>2. CASE x # c
    BY <1>2, <2>2 DEF SharedOK, Saving
  <2> QED
    BY <2>1, <2>2
<1> QED
  BY <1>1, <1>2 DEF SharedOK

\* Every step of a call keeps what calls share accounted for.
LEMMA StepShared ==
  ASSUME ListInv, MailsOK, SharedOK, NEW c \in Calls, Step(c)
  PROVE  SharedOK'
<1>1. /\ pc \in [Calls -> Phases] /\ req \in [Calls -> Users \cup EntryIds \cup {None}]
      /\ batch \in [Calls -> SUBSET EntryIds] /\ shared \in [Calls -> SUBSET EntryIds]
  BY DEF ListInv, TypeOK
<1>2. \A d \in Calls \ {c} : pc'[d] = pc[d] /\ req'[d] = req[d]
  BY OthersKept
\* The entries the call picks: one that was mailed still waits, so another call is
\* saving it and has it in its batch.
<1>3. ASSUME NEW n \in Counts, StartNotify(c, n)
      PROVE  SharedOK'
  <2>1. /\ pc[c] = "idle" /\ UNCHANGED <<place, mailed, unsaved>>
        /\ batch'[c] \in SUBSET Waiting /\ \A d \in Calls \ {c} : batch'[d] = batch[d]
        /\ \A d \in Calls : shared'[d] =
             shared[d] \cup UNION {batch'[d] \cap batch'[x] : x \in Calls \ {d}}
    BY <1>1, <1>3 DEF StartNotify, Oldest, rows, history
  <2>2. ASSUME NEW x \in Calls, NEW y \in Calls \ {x}
        PROVE  batch'[x] \cap batch'[y] \subseteq shared'[x]
    BY <2>1
  <2>3. ASSUME NEW e \in batch'[c] \cap mailed, e \notin unsaved
        PROVE  e \in shared'[c]
    <3>1. PICK d \in Calls : Saving(d) /\ req[d] = e
      BY <2>1, <2>3 DEF MailsOK, Waiting
    <3>2. e \in batch[d] /\ d # c
      BY <2>1, <3>1 DEF Saving, First, ListInv, BatchesOK
    <3> QED
      BY <2>1, <2>2, <2>3, <3>2
  <2>4. ASSUME NEW x \in Calls \ {c}, NEW e \in batch'[x] \cap mailed
        PROVE  e \in unsaved \cup shared'[x] \/ (Saving(x)' /\ req'[x] = e)
    BY <1>2, <2>1, <2>4 DEF SharedOK, Saving
  <2> QED
    BY <2>1, <2>2, <2>3, <2>4 DEF SharedOK
\* The entry mailed: who else has it in its batch knows it as shared.
<1>4. ASSUME NEW e \in EntryIds, SendMail(c, e)
      PROVE  SharedOK'
  <2>1. /\ e \in batch[c] /\ pc[c] = "send" /\ UNCHANGED <<batch, shared, unsaved>>
        /\ mailed' = mailed \cup {e} /\ Saving(c)' /\ req'[c] = e
    BY <1>1, <1>4 DEF SendMail, First, Goto, Saving, lists, rows
  <2>2. ASSUME NEW x \in Calls, NEW f \in batch[x] \cap mailed'
        PROVE  f \in unsaved \cup shared[x] \/ (Saving(x)' /\ req'[x] = f)
    <3>1. CASE f = e
      BY <2>1, <2>2, <3>1 DEF SharedOK
    <3>2. CASE f # e
      BY <1>2, <2>1, <2>2, <3>2 DEF SharedOK, Saving
    <3> QED
      BY <3>1, <3>2
  <2> QED
    BY <2>1, <2>2 DEF SharedOK
<1>5. CASE CompareEntry(c) \/ UpdateEntry(c) \/ UpdateNothing(c) \/ RestoreEntry(c)
  <2>1. /\ mailed' = mailed /\ unsaved \subseteq unsaved'
        /\ \A d \in Calls \ {c} : batch'[d] = batch[d] /\ shared'[d] = shared[d]
        /\ \/ /\ batch'[c] = batch[c] /\ shared'[c] = shared[c]
              /\ Saving(c)' /\ req'[c] = req[c]
           \/ batch'[c] = batch[c] \ {req[c]} /\ shared'[c] = shared[c] \ {req[c]}
    BY <1>1, <1>5 DEF CompareEntry, UpdateEntry, UpdateNothing, RestoreEntry, Notified,
       NextEntry, Goto, Saving, lists, history
  <2> QED
    BY <1>2, <2>1, SharedStays
<1>6. CASE CommitInsert(c) \/ Remove(c) \/ EndNotify(c) \/ Fails(c)
  <2>1. /\ mailed' = mailed /\ unsaved \subseteq unsaved' /\ batch'[c] = {}
        /\ \A d \in Calls \ {c} : batch'[d] = batch[d] /\ shared'[d] = shared[d]
    BY <1>1, <1>6 DEF CommitInsert, Remove, EndNotify, Fails, Return, history
  <2> QED
    BY <1>2, <2>1, SharedStays
<1>7. ASSUME NEW x, StartJoin(c, x) \/ Insert(c, x) \/ StartLeave(c, x)
      PROVE  SharedOK'
  <2>1. ~Saving(c) /\ UNCHANGED <<batch, shared, mailed, unsaved>>
    BY <1>7 DEF StartJoin, Insert, StartLeave, Saving, lists, history
  <2> QED
    BY <1>2, <2>1, SharedStays
<1> QED
  BY <1>3, <1>4, <1>5, <1>6, <1>7 DEF Step

-------------------------------------------------------------------------------
\* The list is in order and every mail accounted for, in every state, for any
\* number of users, entries and calls and any size of batch.
THEOREM SpecIInv == Spec => []IInv
<1>1. Init => IInv
  BY InitListInv DEF IInv, MailsOK, SharedOK, Init
<1>2. IInv /\ [Next]_vars => IInv'
  <2> SUFFICES ASSUME ListInv, MailsOK, SharedOK, [Next]_vars
               PROVE  ListInv' /\ MailsOK' /\ SharedOK'
    BY DEF IInv
  <2>1. ListInv'
    BY NextListInv
  <2>2. ASSUME UNCHANGED vars PROVE MailsOK' /\ SharedOK'
    BY <2>2 DEF vars, rows, local, lists, history, MailsOK, SharedOK, Saving
  <2>3. ASSUME NEW c \in Calls, Step(c)
        PROVE  MailsOK' /\ SharedOK'
    BY <2>3, StepMails, StepShared
  <2>4. ASSUME NEW u \in Users, DeleteAccount(u)
        PROVE  MailsOK' /\ SharedOK'
    BY <2>4 DEF DeleteAccount, local, lists, history, MailsOK, SharedOK, Saving
  <2> QED BY <2>1, <2>2, <2>3, <2>4 DEF Next
<1> QED
  BY <1>1, <1>2, PTL DEF Spec

\* notifyNext serves the list first come, first served, for any number of calls
\* that join, leave, notify and fail, and any size of batch.
THEOREM SpecFirstComeFirstServed == Spec => []FirstComeFirstServed
<1>1. IInv => FirstComeFirstServed
  BY DEF IInv, ListInv
<1> QED
  BY <1>1, SpecIInv, PTL

\* notifyNext mails an entry a second time only after a call that failed before it
\* could save the first mail, or when it has picked the entry while another call had.
THEOREM SpecMailedOnce == Spec => MailedOnce
<1>1. ASSUME IInv, [Next]_vars
      PROVE  [\A c \in Calls, e \in mailed : Mails(c, e) => e \in unsaved \cup shared[c]]_vars
  <2> SUFFICES ASSUME Next, NEW c \in Calls, NEW e \in mailed, Mails(c, e)
               PROVE  e \in unsaved \cup shared[c]
    BY <1>1
  <2>1. pc \in [Calls -> Phases] /\ req \in [Calls -> Users \cup EntryIds \cup {None}]
    BY <1>1 DEF IInv, ListInv, TypeOK
  <2>2. PICK x \in EntryIds : SendMail(c, x)
    <3>1. PICK d \in Calls : Step(d)
      BY <2>1 DEF Next, Mails, DeleteAccount, local
    <3>2. d = c
      BY <1>1, <3>1, OthersKept DEF Mails, IInv
    <3> QED
      BY <2>1, <3>1, <3>2 DEF Step, Mails, StartJoin, Insert, CommitInsert, StartLeave, Remove,
         StartNotify, CompareEntry, UpdateEntry, UpdateNothing, RestoreEntry, Notified,
         NextEntry, EndNotify, Fails, Return, Goto
  <2>3. x = e /\ e \in batch[c]
    BY <2>1, <2>2 DEF SendMail, First, Goto, Mails
  <2> QED
    BY <1>1, <2>3 DEF Mails, IInv, SharedOK, Saving
<1> QED
  BY <1>1, SpecIInv, PTL DEF Spec, MailedOnce

-------------------------------------------------------------------------------
(* The queue the calls implement *)

\* The entry a call saves is next: what was ahead of it and still waits would be in
\* the batch and come first.
LEMMA SavedIsNext ==
  ASSUME ListInv, NEW c \in Calls, Saving(c)
  PROVE  /\ req[c] \in EntryIds /\ entry[req[c]] # None
         /\ place[req[c]] \in {"waiting", "notified", "gone"}
         /\ \A f \in entry[req[c]].ahead : place[f] = "waiting" => ~Mailable(f)
<1>1. First(c, req[c])
  BY DEF Saving, ListInv, BatchesOK
<1>2. PICK x \in EntryIds : x = req[c]
  BY <1>1 DEF First, ListInv, TypeOK
<1>3. x \in batch[c] /\ place[x] \notin {"unused", "inserting"} /\ First(c, x)
  BY <1>1, <1>2 DEF First, ListInv, BatchesOK
<1>4. entry[x] \in Entry /\ place[x] \in {"waiting", "notified", "gone"}
  BY <1>3 DEF ListInv, TypeOK, Places
<1>5. ASSUME NEW f \in entry[x].ahead, place[f] = "waiting", Mailable(f)
      PROVE  FALSE
  <2>1. f \in batch[c]
    BY <1>3, <1>5 DEF ListInv, BatchesOK
  <2>2. Earlier(f, x) /\ f \in EntryIds
    BY <1>3, <1>4, <1>5 DEF ListInv, AheadOK, Entry
  <2>3. f = x \/ Earlier(x, f)
    BY <1>3, <2>1 DEF First
  <2>4. entry[x].joined \in Nat /\ entry[f].joined \in Nat
    BY <1>4, <1>5, <2>2 DEF ListInv, TypeOK, Entry
  <2> QED
    BY <2>2, <2>3, <2>4 DEF Earlier
<1> QED
  BY <1>2, <1>4, <1>5, WaitlistAssumption

\* A step that leaves the entries and the deleted users alone leaves the owners of
\* the queue and who is ahead of whom alone.
LEMMA QueueKept ==
  ASSUME UNCHANGED <<entry, deleted>>
  PROVE  /\ (place' = place => UNCHANGED Q!vars)
         /\ \A e \in EntryIds :
              /\ Q!Join(e) <=> /\ place[e] = "inserting"
                               /\ place' = [place EXCEPT ![e] = "waiting"]
              /\ Q!Leave(e) <=> /\ place[e] # "unused"
                                /\ place' = [place EXCEPT ![e] = "gone"]
BY DEF Q!vars, Q!Join, Q!Leave, lists

\* The insert of a row is the application of its user.
LEMMA InsertApplies ==
  ASSUME ListInv, NEW c \in Calls, NEW e \in EntryIds, Insert(c, e)
  PROVE  Q!Next
<1>1. req[c] \in Users
  BY DEF Insert, ListInv, InsertsOK, lists
<1>2. PICK u \in Users : u = req[c]
  BY <1>1
<1> DEFINE row == [user |-> u, joined |-> clock, ahead |-> OnList]
<1>3. /\ entry' = [entry EXCEPT ![e] = row] /\ entry \in [EntryIds -> Entry \cup {None}]
      /\ place' = [place EXCEPT ![e] = "inserting"] /\ place[e] = "unused"
      /\ deleted' = deleted
  BY <1>2 DEF Insert, ListInv, TypeOK, lists
<1>4. row \in Entry
  BY DEF Entry, OnList, ListInv, TypeOK
<1>5. /\ \A x \in EntryIds \ {e} : entry'[x] = entry[x]
      /\ entry'[e] # None /\ entry'[e].user = u /\ entry'[e].ahead = OnList
  BY <1>3, <1>4, WaitlistAssumption
<1>6. Q!OnList = OnList
  BY DEF Q!OnList, OnList
<1> HIDE DEF row
<1>7. Q!Apply(e, u)
  BY <1>3, <1>5, <1>6 DEF Q!Apply
<1> QED
  BY <1>7 DEF Q!Next

\* The save of a mailed entry notifies it in its turn.
LEMMA SaveNotifies ==
  ASSUME ListInv, NEW c \in Calls, UpdateEntry(c) \/ RestoreEntry(c)
  PROVE  Q!Next
<1>1. Saving(c) /\ Notified(c)
  BY DEF UpdateEntry, RestoreEntry, Saving, NextEntry
<1>2. PICK e \in EntryIds : e = req[c]
  BY <1>1, SavedIsNext
<1>3. /\ entry[e] # None /\ place[e] \in {"waiting", "notified", "gone"}
      /\ \A f \in entry[e].ahead : place[f] = "waiting" => ~Mailable(f)
  BY <1>1, <1>2, SavedIsNext
<1>4. entry[e].ahead \subseteq EntryIds
  BY <1>3 DEF ListInv, TypeOK, Entry
<1>5. \A f \in EntryIds : place[f] = "waiting" => entry[f] # None
  BY DEF ListInv, TypeOK
<1>6. Q!MayNotify(e)
  BY <1>3, <1>4, <1>5 DEF Q!MayNotify, Mailable
<1>7. Q!Notify(e)
  BY <1>1, <1>2, <1>3, <1>6 DEF Q!Notify, Notified, NextEntry
<1> QED
  BY <1>7 DEF Q!Next

\* Calls of join, leave and notifyNext, interleaved and failing anywhere, implement
\* the queue: every save of notifiedAt is the turn of its entry.
THEOREM SpecImplementsQueue == Spec => ImplementsQueue
<1>1. Init => Q!Init
  BY DEF Init, Q!Init
<1>2. ASSUME ListInv, [Next]_vars PROVE [Q!Next]_(Q!vars)
  <2>1. CASE UNCHANGED vars
    BY <2>1, QueueKept DEF vars, rows, lists
  <2>2. ASSUME NEW c \in Calls, Step(c) PROVE [Q!Next]_(Q!vars)
    <3>1. ASSUME NEW e \in EntryIds, Insert(c, e) PROVE Q!Next
      BY <1>2, <3>1, InsertApplies
    <3>2. CASE UpdateEntry(c) \/ RestoreEntry(c)
      BY <1>2, <3>2, SaveNotifies
    <3>3. CASE CommitInsert(c)
      <4>1. PICK e \in EntryIds : e = req[c] /\ place[e] = "inserting"
        BY <1>2, <3>3 DEF CommitInsert, ListInv, InsertsOK
      <4>2. Q!Join(e)
        BY <3>3, <4>1, QueueKept DEF CommitInsert
      <4> QED
        BY <4>2 DEF Q!Next
    <3>4. CASE Remove(c)
      <4>1. PICK e \in EntryIds : e = req[c] /\ place[e] # "unused"
        BY <1>2, <3>4 DEF Remove, ListInv, InsertsOK
      <4>2. Q!Leave(e)
        BY <3>4, <4>1, QueueKept DEF Remove
      <4> QED
        BY <4>2 DEF Q!Next
    <3>5. CASE Fails(c)
      <4>1. CASE pc[c] # "commit"
        <5>1. place' = place
          BY <1>2, <3>5, <4>1 DEF Fails, ListInv, TypeOK
        <5> QED
          BY <3>5, <5>1, QueueKept DEF Fails
      <4>2. CASE pc[c] = "commit"
        <5>1. PICK e \in EntryIds : e = req[c] /\ place[e] = "inserting"
          BY <1>2, <4>2 DEF ListInv, InsertsOK
        <5>2. place' = [place EXCEPT ![e] = "gone"]
          BY <1>2, <3>5, <4>2, <5>1 DEF Fails, ListInv, TypeOK
        <5>3. Q!Leave(e)
          BY <3>5, <5>1, <5>2, QueueKept DEF Fails
        <5> QED
          BY <5>3 DEF Q!Next
      <4> QED
        BY <4>1, <4>2
    <3>6. ASSUME UNCHANGED rows PROVE UNCHANGED Q!vars
      BY <3>6, QueueKept DEF rows
    <3> QED
      BY <2>2, <3>1, <3>2, <3>3, <3>4, <3>5, <3>6
      DEF Step, StartJoin, StartLeave, StartNotify, SendMail, CompareEntry, UpdateNothing,
          EndNotify, lists, NextEntry
  <2>3. ASSUME NEW u \in Users, DeleteAccount(u) PROVE Q!Next
    <3>1. Q!DeleteAccount(u)
      BY <2>3 DEF DeleteAccount, Q!DeleteAccount, lists
    <3> QED
      BY <3>1 DEF Q!Next
  <2> QED
    BY <1>2, <2>1, <2>2, <2>3 DEF Next
<1>3. IInv => ListInv
  BY DEF IInv
<1> QED
  BY <1>1, <1>2, <1>3, SpecIInv, PTL DEF Spec, ImplementsQueue, Q!Spec
===============================================================================
