------------------------- MODULE EventLifecycleProofs -------------------------
EXTENDS EventLifecycle, TLAPS

\* Before the event is created nothing is wrong.
LEMMA InitPastInv == Init => PastInv
BY LifecycleAssumption
DEF Init, PastInv, TypeOK, TableOK, CallsOK, CallOK, Saved, Logged, Verdict, NewsIsTrue, LegalPast,
    Had, Phases, Ended, Saved

\* A call that has loaded the event has an entity that its checks allow.
LEMMA LoadInv ==
  ASSUME PastInv, NEW c \in Calls, NEW u \in Users,
         NEW operation \in Operations \ {"create"}, NEW w \in Row,
         Load(c, u, operation, w),
         operation \in {"approve", "reject"} => u \in Admins,
         operation \in {"edit", "archive"} => w.status = event.status,
         operation = "move" => w.status \in Transitions[event.status],
         operation = "approve" => w.status = "PUBLISHED",
         operation = "reject" => w.status = "DRAFT",
         w.archived => event.archived \/ event.status \in {"DRAFT", "CANCELLED"}
  PROVE  PastInv'
<1> USE LifecycleAssumption
<1>1. /\ event \in Row /\ event \in been /\ pc[c] = "new" /\ op[c] = None
      /\ audit[c] = None /\ c \notin mailed
  BY DEF PastInv, TypeOK, TableOK, CallsOK, CallOK, Saved, Logged, Verdict, Load
<1>2. /\ \A d \in Calls \ {c} : /\ pc'[d] = pc[d] /\ op'[d] = op[d]
                                /\ user'[d] = user[d] /\ entity'[d] = entity[d]
      /\ pc'[c] = "compare" /\ op'[c] = operation /\ user'[c] = u /\ entity'[c] = w
      /\ event' = event /\ been' = been /\ author' = author /\ audit' = audit /\ mailed' = mailed
      /\ diff' = diff
  BY DEF PastInv, TypeOK, Load, table
<1>3. TypeOK'
  BY DEF PastInv, TypeOK, Load, table, Phases
<1>4. TableOK'
  BY <1>2 DEF PastInv, TableOK
<1>5. SourceOK(c)'
  <2>1. Had({event.status})
    BY <1>1 DEF Had
  <2>2. operation = "move" =>
          /\ w.status # "DRAFT"
          /\ w.status \in {"COMPLETED", "POSTPONED"} => event.status = "PUBLISHED"
    BY <1>1 DEF Transitions, Row, Statuses
  <2>3. w.archived => Had({"DRAFT", "CANCELLED"})
    BY <1>1 DEF PastInv, LegalPast, Had
  <2> QED
    BY <1>2, <2>1, <2>2, <2>3 DEF SourceOK, Had
<1>6. CallsOK'
  <2> SUFFICES ASSUME NEW d \in Calls
               PROVE  CallOK(d)'
    BY DEF CallsOK
  <2>1. CASE d = c
    BY <1>1, <1>2, <1>5, <2>1 DEF CallOK, Saved, Logged, Verdict, Load
  <2>2. CASE d # c
    BY <1>2, <2>2 DEF PastInv, CallsOK, CallOK, Saved, Logged, Verdict, SourceOK, Had
  <2> QED
    BY <2>1, <2>2
<1>8. NewsIsTrue'
  BY <1>1, <1>2 DEF PastInv, NewsIsTrue, Had
<1>9. LegalPast'
  <2>1. Created({"COMPLETED", "POSTPONED"}) => Created({"COMPLETED", "POSTPONED"})'
    BY <1>1, <1>2 DEF Created, Operations
  <2> QED
    BY <1>2, <2>1 DEF PastInv, LegalPast, Had
<1> QED
  BY <1>3, <1>4, <1>6, <1>8, <1>9 DEF PastInv

\* The event appears, and nobody had loaded it.
LEMMA CreateInv ==
  ASSUME PastInv, NEW c \in Calls, NEW s \in Statuses, Create(c, s)
  PROVE  PastInv'
<1> USE LifecycleAssumption
<1>1. /\ pc[c] = "new" /\ event = None /\ been = {} /\ op[c] = None
      /\ audit[c] = None /\ c \notin mailed
      /\ \A d \in Calls : pc[d] \notin Phases
  BY DEF PastInv, TableOK, CallsOK, CallOK, Saved, Logged, Verdict, Create
<1>2. /\ \A d \in Calls \ {c} : /\ pc'[d] = pc[d] /\ op'[d] = op[d]
                                /\ user'[d] = user[d] /\ entity'[d] = entity[d]
      /\ pc'[c] = "done" /\ op'[c] = "create" /\ entity'[c] = event'
      /\ event' = [status |-> s, archived |-> FALSE] /\ been' = {event'} /\ author' = c
      /\ audit' = audit /\ mailed' = mailed /\ diff' = diff
      /\ event' \in Row
  BY DEF PastInv, TypeOK, Create, Row
<1>3. TypeOK'
  BY <1>2 DEF PastInv, TypeOK, Create, Ended, Operations
<1>4. TableOK'
  BY <1>2 DEF TableOK
<1>5. CallsOK'
  <2> SUFFICES ASSUME NEW d \in Calls
               PROVE  CallOK(d)'
    BY DEF CallsOK
  <2>1. CASE d = c
    BY <1>1, <1>2, <2>1 DEF CallOK, Saved, Logged, Verdict, Phases
  <2>2. CASE d # c
    BY <1>1, <1>2, <2>2 DEF PastInv, CallsOK, CallOK, Saved, Logged, Verdict, Phases
  <2> QED
    BY <2>1, <2>2
<1>6. LegalPast'
  BY <1>2 DEF LegalPast, Had, Created
<1>7. \A d \in Calls : audit[d] = None /\ d \notin mailed
  BY <1>1 DEF PastInv, NewsIsTrue, Had
<1>8. NewsIsTrue'
  BY <1>2, <1>7 DEF NewsIsTrue
<1> QED
  BY <1>3, <1>4, <1>5, <1>6, <1>8 DEF PastInv

\* A call goes on and neither changes the row nor tells anything.
LEMMA QuietInv ==
  ASSUME PastInv, NEW c \in Calls, NEW phase \in Phases \cup Ended, Goto(c, phase),
         UNCHANGED <<table, audit, mailed, stale>>, diff' \in [Calls -> SUBSET Columns],
         \A d \in Calls \ {c} : diff'[d] = diff[d],
         pc[c] \in Phases, phase \in {"write", "done", "error", "partial"},
         phase = "write" /\ "status" \notin diff'[c] => Had({entity[c].status}),
         phase = "error" => pc[c] \in {"compare", "write"},
         phase = "write" => pc[c] = "compare",
         phase \in {"done", "partial"} => pc[c] \in {"log", "mail"},
         phase = "done" => pc[c] = "mail"
  PROVE  PastInv'
<1> USE LifecycleAssumption
<1>1. /\ \A d \in Calls \ {c} : pc'[d] = pc[d]
      /\ pc'[c] = phase /\ op' = op /\ user' = user /\ entity' = entity
      /\ event' = event /\ been' = been /\ author' = author /\ audit' = audit /\ mailed' = mailed
  BY DEF PastInv, TypeOK, Goto, asked, table
<1>2. TypeOK'
  BY <1>1 DEF PastInv, TypeOK, Goto
<1>3. TableOK'
  BY <1>1 DEF PastInv, TableOK
<1>4. CallsOK'
  <2> SUFFICES ASSUME NEW d \in Calls
               PROVE  CallOK(d)'
    BY DEF CallsOK
  <2>1. CASE d = c
    <3>1. CallOK(c) /\ pc[c] \in Phases
      BY DEF PastInv, CallsOK
    <3>2. SourceOK(c)'
      BY <1>1, <3>1 DEF CallOK, Saved, Logged, Verdict, SourceOK, Had
    <3> QED
      BY <1>1, <2>1, <3>1, <3>2 DEF CallOK, Saved, Logged, Verdict, Had, Phases
  <2>2. CASE d # c
    BY <1>1, <2>2 DEF PastInv, CallsOK, CallOK, Saved, Logged, Verdict, SourceOK, Had
  <2> QED
    BY <2>1, <2>2
<1>6. NewsIsTrue' /\ LegalPast'
  BY <1>1 DEF PastInv, NewsIsTrue, LegalPast, Had, Created
<1> QED
  BY <1>2, <1>3, <1>4, <1>6 DEF PastInv

\* The comparison of a save: a status that is left out is the row's.
LEMMA CompareInv ==
  ASSUME PastInv, NEW c \in Calls, Compare(c)
  PROVE  PastInv'
<1>1. /\ pc[c] = "compare" /\ pc[c] \in Phases /\ "write" \in Phases
      /\ event # None /\ event \in been
  BY DEF PastInv, TableOK, CallsOK, CallOK, Saved, Logged, Verdict, Compare, Phases
<1>2. /\ diff' \in [Calls -> SUBSET Columns]
      /\ \A d \in Calls \ {c} : diff'[d] = diff[d]
      /\ "status" \notin diff'[c] => event.status = entity[c].status
  BY DEF PastInv, TypeOK, Compare, Columns
<1>3. "status" \notin diff'[c] => Had({entity[c].status})
  BY <1>1, <1>2 DEF Had
<1> QED
  BY <1>1, <1>2, <1>3, QuietInv DEF Compare

\* A failure and the end of a notification.
LEMMA EndInv ==
  ASSUME PastInv, NEW c \in Calls, Fails(c) \/ SkipMail(c)
  PROVE  PastInv'
<1>1. /\ pc[c] \in Phases /\ UNCHANGED <<table, audit, mailed, diff, stale>>
      /\ \/ Goto(c, "error") /\ pc[c] \in {"compare", "write"}
         \/ Goto(c, "partial") /\ pc[c] \in {"log", "mail"}
         \/ Goto(c, "done") /\ pc[c] = "mail"
  BY DEF Fails, SkipMail, Phases
<1>2. diff' \in [Calls -> SUBSET Columns] /\ {"error", "partial", "done"} \subseteq Ended
  BY <1>1 DEF PastInv, TypeOK, Ended
<1>3. CASE Goto(c, "error") /\ pc[c] \in {"compare", "write"}
  BY <1>1, <1>2, <1>3, QuietInv
<1>4. CASE Goto(c, "partial") /\ pc[c] \in {"log", "mail"}
  BY <1>1, <1>2, <1>4, QuietInv
<1>5. CASE Goto(c, "done") /\ pc[c] = "mail"
  BY <1>1, <1>2, <1>5, QuietInv
<1> QED
  BY <1>1, <1>3, <1>4, <1>5

\* What is written comes from a source that is allowed, or is in the row already.
LEMMA WriteInv ==
  ASSUME PastInv, NEW c \in Calls, Write(c)
  PROVE  PastInv'
<1> USE LifecycleAssumption
<1>1. /\ pc[c] = "write" /\ CallOK(c) /\ SourceOK(c) /\ entity[c] \in Row
      /\ op[c] \in Operations \ {"create"} /\ event \in Row /\ event \in been
      /\ audit[c] = None /\ c \notin mailed
  BY DEF PastInv, TypeOK, TableOK, CallsOK, CallOK, Saved, Logged, Verdict, Write, Phases
<1>2. /\ \A d \in Calls \ {c} : pc'[d] = pc[d]
      /\ pc'[c] = Following(op[c]) /\ op' = op /\ user' = user /\ entity' = entity
      /\ audit' = audit /\ mailed' = mailed /\ diff' = diff
  BY DEF PastInv, TypeOK, Write, Goto, asked
<1>3. /\ event' \in Row
      /\ event'.status \in {entity[c].status, event.status}
      /\ event'.archived \in {entity[c].archived, event.archived}
      /\ "status" \in diff[c] => event'.status = entity[c].status
      /\ been' = been \cup {event'} /\ author' \in {author, c}
  BY <1>1 DEF Write, Row
<1>4. /\ \A S : Had(S) => Had(S)'
      /\ \A S : Had(S)' => Had(S) \/ entity[c].status \in S
  BY <1>1, <1>3 DEF Had
<1>5. Had({entity[c].status})'
  <2>1. CASE "status" \in diff[c]
    BY <1>2, <1>3, <2>1 DEF Had
  <2>2. CASE "status" \notin diff[c]
    BY <1>1, <1>2, <1>3, <2>2 DEF CallOK, Saved, Logged, Verdict, Had
  <2> QED
    BY <2>1, <2>2
<1>6. Following(op[c]) \in {"log", "mail", "done"}
  BY DEF Following
<1>7. TypeOK'
  <2>1. pc' \in [Calls -> {"new"} \cup Phases \cup Ended]
    BY <1>6 DEF PastInv, TypeOK, Write, Goto, Phases, Ended
  <2>2. stale' \subseteq Calls
    BY DEF PastInv, TypeOK, Write
  <2> QED
    BY <1>2, <1>3, <2>1, <2>2 DEF PastInv, TypeOK
<1>8. TableOK'
  BY <1>1, <1>3 DEF PastInv, TableOK
<1>9. \A d \in Calls : SourceOK(d) => SourceOK(d)'
  BY <1>2, <1>3 DEF SourceOK, Had
<1>10. CallsOK'
  <2> SUFFICES ASSUME NEW d \in Calls
               PROVE  CallOK(d)'
    BY DEF CallsOK
  <2>1. CASE d = c
    <3>1. /\ op[c] \in {"approve", "reject"} => Following(op[c]) = "log"
          /\ Following(op[c]) = "log" => op[c] \in {"approve", "reject"}
      BY DEF Following
    <3> QED
      BY <1>1, <1>2, <1>3, <1>5, <1>6, <1>9, <2>1, <3>1 DEF CallOK, Saved, Logged, Verdict, Phases
  <2>2. CASE d # c
    <3>1. CallOK(d)
      BY DEF PastInv, CallsOK
    <3> QED
      BY <1>2, <1>3, <1>9, <2>2, <3>1 DEF CallOK, Saved, Logged, Verdict, Had
  <2> QED
    BY <2>1, <2>2
<1>11. \A S : Created(S)' <=> Created(S)
  BY <1>2 DEF Created
<1>13. NewsIsTrue'
  BY <1>1, <1>2, <1>3 DEF PastInv, NewsIsTrue, Had
<1>14. LegalPast'
  <2>1. ASSUME Had({"COMPLETED", "POSTPONED"})'
        PROVE  Had({"PUBLISHED"})' \/ Created({"COMPLETED", "POSTPONED"})'
    <3>1. CASE Had({"COMPLETED", "POSTPONED"})
      BY <1>4, <1>11, <3>1 DEF PastInv, LegalPast
    <3>2. CASE ~Had({"COMPLETED", "POSTPONED"})
      <4>1. entity[c].status \in {"COMPLETED", "POSTPONED"}
        BY <1>4, <2>1, <3>2
      <4>2. op[c] = "move"
        BY <1>1, <3>2, <4>1 DEF SourceOK, Operations, Had
      <4> QED
        BY <1>1, <1>4, <4>1, <4>2 DEF SourceOK
    <3> QED
      BY <3>1, <3>2
  <2>2. ASSUME NEW v \in been', v.archived
        PROVE  Had({"DRAFT", "CANCELLED"})'
    <3>1. Had({"DRAFT", "CANCELLED"})
      BY <1>1, <1>3, <2>2 DEF PastInv, LegalPast, SourceOK
    <3> QED
      BY <1>4, <3>1
  <2> QED
    BY <2>1, <2>2 DEF LegalPast
<1> QED
  BY <1>7, <1>8, <1>10, <1>13, <1>14 DEF PastInv

\* A call tells what the event has been.
LEMMA TellInv ==
  ASSUME PastInv, NEW c \in Calls, Log(c) \/ SendMail(c)
  PROVE  PastInv'
<1> USE LifecycleAssumption
<1>1. /\ pc[c] \in {"log", "mail"} /\ CallOK(c) /\ SourceOK(c)
      /\ Had({entity[c].status}) /\ entity[c] \in Row /\ user[c] \in Users
  BY DEF PastInv, CallsOK, CallOK, Saved, Logged, Verdict, Log, SendMail, Phases
<1>2. /\ \A d \in Calls \ {c} :
           /\ pc'[d] = pc[d] /\ audit'[d] = audit[d] /\ (d \in mailed' <=> d \in mailed)
      /\ op' = op /\ user' = user /\ entity' = entity
      /\ event' = event /\ been' = been /\ author' = author /\ diff' = diff
  BY DEF PastInv, TypeOK, Log, SendMail, Goto, asked, table
<1>3. \/ /\ pc[c] = "log" /\ pc'[c] = "mail" /\ mailed' = mailed
         /\ op[c] \in {"approve", "reject"} /\ user[c] \in Admins
         /\ audit'[c] = Verdict(c)
      \/ pc[c] = "mail" /\ pc'[c] = "done" /\ audit' = audit
  BY <1>1 DEF PastInv, TypeOK, CallOK, Saved, Logged, Verdict, Log, SendMail, Goto, Phases, table
<1>4. TypeOK'
  <2>1. /\ pc' \in [Calls -> {"new"} \cup Phases \cup Ended]
        /\ mailed' \subseteq Calls /\ stale' \subseteq Calls
    BY DEF PastInv, TypeOK, Log, SendMail, Goto, Phases, Ended
  <2>2. audit' \in [Calls -> Entry \cup {None}]
    BY <1>3 DEF PastInv, TypeOK, Log, SendMail, Entry, Verdict
  <2> QED
    BY <1>2, <2>1, <2>2 DEF PastInv, TypeOK
<1>5. TableOK'
  BY <1>2 DEF PastInv, TableOK
<1>6. CallsOK'
  <2> SUFFICES ASSUME NEW d \in Calls
               PROVE  CallOK(d)'
    BY DEF CallsOK
  <2>1. CASE d = c
    <3>1. SourceOK(c)' /\ Had({entity[c].status})'
      BY <1>1, <1>2 DEF SourceOK, Had
    <3> QED
      BY <1>1, <1>2, <1>3, <2>1, <3>1 DEF CallOK, Saved, Logged, Verdict, Phases
  <2>2. CASE d # c
    BY <1>2, <2>2 DEF PastInv, CallsOK, CallOK, Saved, Logged, Verdict, SourceOK, Had
  <2> QED
    BY <2>1, <2>2
<1>8. NewsIsTrue'
  <2> SUFFICES ASSUME NEW d \in Calls
               PROVE  /\ audit'[d] # None \/ d \in mailed' => Had({entity[d].status})
                      /\ audit'[d] # None =>
                           (audit'[d].action = "EVENT_APPROVED" <=> op[d] = "approve")
    BY <1>2 DEF NewsIsTrue, Had
  <2>1. CASE d = c
    BY <1>1, <1>3, <2>1 DEF PastInv, NewsIsTrue, Verdict
  <2>2. CASE d # c
    BY <1>2, <2>2 DEF PastInv, NewsIsTrue
  <2> QED
    BY <2>1, <2>2
<1>9. LegalPast'
  BY <1>2 DEF PastInv, LegalPast, Had, Created
<1> QED
  BY <1>4, <1>5, <1>6, <1>8, <1>9 DEF PastInv

-------------------------------------------------------------------------------
\* Every step preserves the invariant.
LEMMA NextPastInv == PastInv /\ [Next]_vars => PastInv'
<1> SUFFICES ASSUME PastInv, [Next]_vars PROVE PastInv'
  OBVIOUS
<1> USE LifecycleAssumption
<1>1. CASE UNCHANGED vars
  <2> USE <1>1 DEF vars, table, asked
  <2>1. TypeOK' /\ TableOK'
    BY DEF PastInv, TypeOK, TableOK
  <2>2. CallsOK'
    BY DEF PastInv, CallsOK, CallOK, Saved, Logged, Verdict, SourceOK, Had
  <2>3. NewsIsTrue' /\ LegalPast'
    BY DEF PastInv, NewsIsTrue, LegalPast, Had, Created
  <2> QED
    BY <2>1, <2>2, <2>3 DEF PastInv
<1>2. event # None => event \in Row
  BY DEF PastInv, TypeOK
<1>3. ASSUME NEW c \in Calls, NEW u \in Users, StartEdit(c, u)
      PROVE  PastInv'
  <2>1. event \in Row /\ Load(c, u, "edit", event)
    BY <1>2, <1>3 DEF StartEdit, Load
  <2> QED
    BY <2>1, LoadInv DEF Operations
<1>4. ASSUME NEW c \in Calls, NEW u \in Users, NEW s \in Statuses, StartMove(c, u, s)
      PROVE  PastInv'
  <2> DEFINE w == WithStatus(event, s)
  <2>1. w \in Row /\ w.status = s /\ w.archived = event.archived
    BY <1>2, <1>4 DEF WithStatus, Row, StartMove, Load
  <2>2. Load(c, u, "move", w) /\ s \in Transitions[event.status]
    BY <1>4 DEF StartMove
  <2> HIDE DEF w
  <2> QED
    BY <2>1, <2>2, LoadInv DEF Operations
<1>5. ASSUME NEW c \in Calls, NEW u \in Users, StartArchive(c, u)
      PROVE  PastInv'
  <2> DEFINE w == [status |-> event.status, archived |-> TRUE]
  <2>1. w \in Row /\ w.status = event.status
    BY <1>2, <1>5 DEF Row, StartArchive, Load
  <2>2. Load(c, u, "archive", w) /\ event.status \in {"DRAFT", "CANCELLED"}
    BY <1>5 DEF StartArchive
  <2> HIDE DEF w
  <2> QED
    BY <2>1, <2>2, LoadInv DEF Operations
<1>6. ASSUME NEW c \in Calls, NEW a \in Admins, StartApprove(c, a)
      PROVE  PastInv'
  <2> DEFINE w == WithStatus(event, "PUBLISHED")
  <2>1. w \in Row /\ w.status = "PUBLISHED" /\ w.archived = event.archived
    BY <1>2, <1>6 DEF WithStatus, Row, Statuses, StartApprove, Load
  <2>2. Load(c, a, "approve", w)
    BY <1>6 DEF StartApprove
  <2> HIDE DEF w
  <2> QED
    BY <2>1, <2>2, LoadInv DEF Operations
<1>7. ASSUME NEW c \in Calls, NEW a \in Admins, StartReject(c, a)
      PROVE  PastInv'
  <2> DEFINE w == WithStatus(event, "DRAFT")
  <2>1. w \in Row /\ w.status = "DRAFT" /\ w.archived = event.archived
    BY <1>2, <1>7 DEF WithStatus, Row, Statuses, StartReject, Load
  <2>2. Load(c, a, "reject", w)
    BY <1>7 DEF StartReject
  <2> HIDE DEF w
  <2> QED
    BY <2>1, <2>2, LoadInv DEF Operations
<1>8. ASSUME NEW c \in Calls, Step(c)
      PROVE  PastInv'
  BY <1>3, <1>4, <1>5, <1>6, <1>7, <1>8, CreateInv, CompareInv, WriteInv, TellInv, EndInv
  DEF Step
<1> QED
  BY <1>1, <1>8 DEF Next

-------------------------------------------------------------------------------
(* Calls whose event has kept its status since they loaded it *)

\* What every step but a write leaves alone.
LEMMA FreshKept ==
  ASSUME NEW c \in Calls, FreshOK(c), event' = event, stale' = stale,
         op'[c] = op[c], entity'[c] = entity[c],
         pc'[c] \in {"compare", "write"} => pc[c] \in {"compare", "write"}
  PROVE  FreshOK(c)'
BY DEF FreshOK

\* A call that loads the event finds its status, and checks what it asks for.
LEMMA LoadFresh ==
  ASSUME PastInv, NEW c \in Calls, NEW u \in Users, NEW operation, NEW w,
         Load(c, u, operation, w),
         operation \in {"edit", "archive"} => w.status = event.status,
         operation = "move" => w.status \in Transitions[event.status],
         operation = "approve" => event.status = "DRAFT",
         \A d \in Calls : FreshOK(d)
  PROVE  \A d \in Calls : FreshOK(d)'
<1> SUFFICES ASSUME NEW d \in Calls PROVE FreshOK(d)'
  OBVIOUS
<1>1. event' = event /\ stale' = stale
  BY DEF Load, table
<1>2. CASE d = c
  <2>1. op'[c] = operation /\ entity'[c] = w
    BY DEF PastInv, TypeOK, Load
  <2> QED
    BY <1>1, <1>2, <2>1 DEF FreshOK
<1>3. CASE d # c
  <2>1. op'[d] = op[d] /\ entity'[d] = entity[d] /\ pc'[d] = pc[d]
    BY <1>3 DEF PastInv, TypeOK, Load
  <2> QED
    BY <1>1, <2>1, FreshKept
<1> QED
  BY <1>2, <1>3

\* Whoever has loaded the event is stale once its status is written.
LEMMA WriteFresh ==
  ASSUME PastInv, NEW c \in Calls, Write(c), \A d \in Calls : FreshOK(d)
  PROVE  \A d \in Calls : FreshOK(d)'
<1> SUFFICES ASSUME NEW d \in Calls, pc'[d] \in {"compare", "write"}, d \notin stale'
             PROVE  /\ op'[d] \in {"edit", "archive"} => entity'[d].status = event'.status
                    /\ op'[d] = "move" => entity'[d].status \in Transitions[event'.status]
                    /\ op'[d] = "approve" => event'.status = "DRAFT"
  BY DEF FreshOK
<1>1. d # c
  BY DEF PastInv, TypeOK, Write, Goto, Following
<1>2. pc[d] = pc'[d] /\ op' = op /\ entity' = entity
  BY <1>1 DEF PastInv, TypeOK, Write, Goto, asked
<1>3. d \notin stale /\ event'.status = event.status
  BY <1>1, <1>2 DEF Write
<1> QED
  BY <1>2, <1>3 DEF FreshOK

LEMMA NextFresh ==
  ASSUME PastInv, [Next]_vars, \A c \in Calls : FreshOK(c)
  PROVE  \A c \in Calls : FreshOK(c)'
<1>1. CASE UNCHANGED vars
  BY <1>1 DEF vars, table, asked, FreshOK
<1>2. ASSUME NEW c \in Calls, Compare(c) \/ Log(c) \/ SendMail(c) \/ SkipMail(c) \/ Fails(c)
      PROVE  \A d \in Calls : FreshOK(d)'
  <2>1. event' = event /\ stale' = stale /\ op' = op /\ entity' = entity
    BY <1>2 DEF Compare, Log, SendMail, SkipMail, Fails, Goto, table, asked
  <2>2. ASSUME NEW d \in Calls, pc'[d] \in {"compare", "write"}
        PROVE  pc[d] \in {"compare", "write"}
    BY <1>2, <2>2 DEF PastInv, TypeOK, Compare, Log, SendMail, SkipMail, Fails, Goto
  <2> QED
    BY <2>1, <2>2, FreshKept
<1>3. ASSUME NEW c \in Calls, NEW s \in Statuses, Create(c, s)
      PROVE  \A d \in Calls : FreshOK(d)'
  <2>1. \A d \in Calls : pc[d] \notin Phases /\ pc'[d] \notin {"compare", "write"}
    BY <1>3 DEF PastInv, TypeOK, CallsOK, CallOK, Saved, Logged, Verdict, Create, Phases
  <2> QED
    BY <2>1 DEF FreshOK
<1>4. ASSUME NEW c \in Calls, NEW u \in Users, StartEdit(c, u)
      PROVE  \A d \in Calls : FreshOK(d)'
  <2>1. Load(c, u, "edit", event)
    BY <1>4 DEF StartEdit
  <2> QED
    BY <2>1, LoadFresh
<1>5. ASSUME NEW c \in Calls, NEW u \in Users, NEW s \in Statuses, StartMove(c, u, s)
      PROVE  \A d \in Calls : FreshOK(d)'
  <2> DEFINE w == WithStatus(event, s)
  <2>1. Load(c, u, "move", w) /\ s \in Transitions[event.status] /\ w.status = s
    BY <1>5 DEF StartMove, WithStatus
  <2> HIDE DEF w
  <2> QED
    BY <2>1, LoadFresh
<1>6. ASSUME NEW c \in Calls, NEW u \in Users, StartArchive(c, u)
      PROVE  \A d \in Calls : FreshOK(d)'
  <2> DEFINE w == [status |-> event.status, archived |-> TRUE]
  <2>1. Load(c, u, "archive", w) /\ w.status = event.status
    BY <1>6 DEF StartArchive
  <2> HIDE DEF w
  <2> QED
    BY <2>1, LoadFresh
<1>7. ASSUME NEW c \in Calls, NEW a \in Admins, StartApprove(c, a) \/ StartReject(c, a)
      PROVE  \A d \in Calls : FreshOK(d)'
  <2>1. \/ event.status = "DRAFT" /\ Load(c, a, "approve", WithStatus(event, "PUBLISHED"))
        \/ Load(c, a, "reject", WithStatus(event, "DRAFT"))
    BY <1>7 DEF StartApprove, StartReject
  <2>2. a \in Users
    BY LifecycleAssumption
  <2> QED
    BY <2>1, <2>2, LoadFresh
<1> QED
  BY <1>1, <1>2, <1>3, <1>4, <1>5, <1>6, <1>7, WriteFresh DEF Next, Step

\* A step that changes the status is a write, and what it writes is in its diff.
LEMMA StatusStep ==
  ASSUME IInv, [Next]_vars PROVE LegalStep
<1> SUFFICES ASSUME event # None, event'.status # event.status
             PROVE  \E c \in Calls :
                      /\ pc[c] = "write" /\ pc'[c] = Following(op[c])
                      /\ \/ event'.status \in Transitions[event.status]
                         \/ op[c] = "reject"
                         \/ c \in stale
  BY DEF LegalStep
<1>1. PICK c \in Calls : Write(c)
  BY DEF Next, Step, vars, table, StartEdit, StartMove, StartArchive, StartApprove,
     StartReject, Load, Create, Compare, Log, SendMail, SkipMail, Fails
<1>2. /\ pc[c] = "write" /\ pc'[c] = Following(op[c]) /\ event'.status = entity[c].status
      /\ op[c] \in Operations \ {"create"} /\ FreshOK(c) /\ SourceOK(c)
  BY <1>1 DEF Write, Goto, IInv, PastInv, TypeOK, CallsOK, CallOK, Saved, Logged, Verdict, Phases
<1>3. CASE op[c] = "reject" \/ c \in stale
  BY <1>2, <1>3
<1>4. CASE op[c] # "reject" /\ c \notin stale
  <2>1. CASE op[c] \in {"edit", "archive"}
    BY <1>2, <1>4, <2>1 DEF FreshOK
  <2>2. CASE op[c] = "move"
    BY <1>2, <1>4, <2>2 DEF FreshOK
  <2>3. CASE op[c] = "approve"
    BY <1>2, <1>4, <2>3 DEF FreshOK, SourceOK, Transitions
  <2> QED
    BY <1>2, <1>4, <2>1, <2>2, <2>3 DEF Operations
<1> QED
  BY <1>3, <1>4

-------------------------------------------------------------------------------
(* Who gave the event its status *)

\* A call that was through with its save stays so, and its entry in the log.
LEMMA AuthorStays ==
  ASSUME PastInv, PastInv', StatusAccounted, event # None,
         event'.status = event.status, author' = author, stale \subseteq stale', event' # None,
         op'[author] = op[author], entity'[author] = entity[author],
         Saved(author) => Saved(author)'
  PROVE  StatusAccounted'
<1>1. author \in Calls /\ Saved(author) /\ CallOK(author)'
  BY DEF PastInv, TableOK, CallsOK, StatusAccounted
<1> QED
  BY <1>1 DEF StatusAccounted, CallOK

\* A save that changes the status asks for the change: an edit or an archiving that
\* is not stale has the status of the row, and only a rejection asks for a draft.
LEMMA WriteAccounted ==
  ASSUME PastInv, PastInv', NEW c \in Calls, Write(c), FreshOK(c), StatusAccounted
  PROVE  StatusAccounted'
<1> USE LifecycleAssumption
<1>1. /\ pc[c] = "write" /\ op[c] \in Operations \ {"create"} /\ SourceOK(c)
      /\ event # None /\ event' # None /\ author \in Calls
      /\ Saved(c)' /\ op' = op /\ entity' = entity
      /\ \A d \in Calls \ {c} : pc'[d] = pc[d]
      /\ stale \subseteq stale'
  BY DEF PastInv, TypeOK, TableOK, CallsOK, CallOK, Write, Goto, Following, Phases, Saved,
     asked, Row
<1>2. CASE event'.status = event.status
  <2>1. author' = author /\ (Saved(author) => Saved(author)')
    BY <1>1, <1>2 DEF Write, Saved
  <2> QED
    BY <1>1, <1>2, <2>1, AuthorStays
<1>3. CASE event'.status # event.status
  <2>1. author' = c /\ event'.status = entity[c].status
    BY <1>3 DEF Write
  <2>2. op[c] \in {"approve", "reject"} => Logged(c)'
    BY <1>1 DEF PastInv, CallsOK, CallOK
  <2>3. op[c] \in {"edit", "archive"} => c \in stale
    BY <1>1, <1>3, <2>1 DEF FreshOK
  <2>4. entity[c].status = "DRAFT" => op[c] = "reject" \/ c \in stale
    BY <1>1, <2>3 DEF SourceOK, Operations
  <2> QED
    BY <1>1, <2>1, <2>2, <2>3, <2>4 DEF StatusAccounted
<1> QED
  BY <1>2, <1>3

LEMMA NextAccounted ==
  ASSUME PastInv, PastInv', \A c \in Calls : FreshOK(c), StatusAccounted, [Next]_vars
  PROVE  StatusAccounted'
<1> USE LifecycleAssumption
<1>1. CASE UNCHANGED vars
  BY <1>1 DEF vars, table, asked, StatusAccounted, Saved, Logged, Verdict
<1>2. ASSUME NEW c \in Calls, NEW s \in Statuses, Create(c, s)
      PROVE  StatusAccounted'
  <2>1. /\ author' = c /\ pc'[c] = "done" /\ op'[c] = "create"
        /\ entity'[c] = event'
    BY <1>2 DEF PastInv, TypeOK, Create
  <2> QED
    BY <2>1 DEF StatusAccounted, Saved
<1>3. ASSUME NEW c \in Calls, NEW u, NEW operation, NEW w, Load(c, u, operation, w)
      PROVE  StatusAccounted'
  <2>1. /\ UNCHANGED <<event, author, stale>> /\ pc[c] = "new" /\ event # None
        /\ \A d \in Calls \ {c} : pc'[d] = pc[d] /\ op'[d] = op[d] /\ entity'[d] = entity[d]
    BY <1>3 DEF PastInv, TypeOK, Load, table
  <2>2. author \in Calls \ {c}
    BY <2>1 DEF PastInv, TableOK, StatusAccounted, Saved
  <2> QED
    BY <2>1, <2>2, AuthorStays DEF Saved
<1>4. ASSUME NEW c \in Calls, Compare(c) \/ Log(c) \/ SendMail(c) \/ SkipMail(c) \/ Fails(c)
      PROVE  StatusAccounted'
  <2>1. /\ UNCHANGED <<event, author, stale, op, entity>> /\ event # None
        /\ \A d \in Calls : Saved(d) => Saved(d)'
    BY <1>4 DEF PastInv, TypeOK, CallsOK, CallOK, Compare, Log, SendMail, SkipMail, Fails, Goto,
       Phases, Saved, table, asked
  <2>2. author \in Calls
    BY <2>1 DEF PastInv, TableOK
  <2> QED
    BY <2>1, <2>2, AuthorStays
<1> QED
  BY <1>1, <1>2, <1>3, <1>4, WriteAccounted
  DEF Next, Step, StartEdit, StartMove, StartArchive, StartApprove, StartReject

-------------------------------------------------------------------------------
(* The theorems *)

LEMMA InitIInv == Init => IInv
BY InitPastInv DEF Init, IInv, FreshOK, StatusAccounted

LEMMA NextIInv == IInv /\ [Next]_vars => IInv'
BY NextPastInv, NextFresh, NextAccounted DEF IInv

\* The inductive invariant: what calls read the event has been, and a save asks for what a row
\* of its past allows.
THEOREM SpecIInv == Spec => []IInv
BY InitIInv, NextIInv, PTL DEF Spec

\* The status an event has comes from a call that asked for it: an admin's, which
\* is in the audit log or was cut off before its entry, or an edit or an archiving
\* only when the status changed after it had read it.
THEOREM SpecStatusAccounted == Spec => []StatusAccounted
<1>1. IInv => StatusAccounted
  BY DEF IInv
<1> QED
  BY <1>1, SpecIInv, PTL

\* The audit log and the mails say what the event has been.
THEOREM SpecNewsIsTrue == Spec => []NewsIsTrue
<1>1. IInv => NewsIsTrue
  BY DEF IInv, PastInv
<1> QED
  BY <1>1, SpecIInv, PTL

\* Only a rejection, or the save of a call that overlapped another change, makes a
\* change of status that EVENT_TRANSITIONS does not have.
THEOREM SpecLegalSteps == Spec => LegalSteps
<1>1. IInv /\ [Next]_vars => LegalStep
  BY StatusStep
<1>2. IInv /\ [Next]_vars => [LegalStep]_vars
  BY <1>1
<1> QED
  BY <1>2, SpecIInv, PTL DEF Spec, LegalSteps

\* COMPLETED and POSTPONED come after PUBLISHED, and the archive after a draft or
\* a cancellation, whatever stale rows are saved.
THEOREM SpecLegalPast == Spec => []LegalPast
<1>1. IInv => LegalPast
  BY DEF IInv, PastInv
<1> QED
  BY <1>1, SpecIInv, PTL
===============================================================================
