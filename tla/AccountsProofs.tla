----------------------------- MODULE AccountsProofs ---------------------------
(***************************************************************************)
(* IInv is an invariant of Accounts.  A step of call c moves c and at most *)
(* one row; OthersInv says what is left of the other calls when the rows   *)
(* only advance, and each action then owes its own call and its own row.   *)
(***************************************************************************)
EXTENDS Accounts, TLAPS

-------------------------------------------------------------------------------
(* Rows *)

\* A row with some columns of another is a row, with those columns.
LEMMA MergedRow ==
  ASSUME NEW r \in Row, NEW s \in Row, NEW K \in SUBSET Columns
  PROVE  /\ Merged(r, s, K) \in Row
         /\ Merged(r, s, K).email = IF "email" \in K THEN s.email ELSE r.email
         /\ Merged(r, s, K).role = IF "role" \in K THEN s.role ELSE r.role
         /\ Merged(r, s, K).ver = IF "ver" \in K THEN s.ver ELSE r.ver
         /\ Merged(r, s, K).suspended = IF "suspended" \in K THEN s.suspended ELSE r.suspended
         /\ Merged(r, s, K).code = IF "code" \in K THEN s.code ELSE r.code
<1>1. Merged(r, s, K) \in Row
  BY DEF Merged, Columns, Row
<1>2. /\ Merged(r, s, K).email = IF "email" \in K THEN s.email ELSE r.email
      /\ Merged(r, s, K).role = IF "role" \in K THEN s.role ELSE r.role
      /\ Merged(r, s, K).ver = IF "ver" \in K THEN s.ver ELSE r.ver
  BY DEF Merged, Columns
<1>3. /\ Merged(r, s, K).suspended = IF "suspended" \in K THEN s.suspended ELSE r.suspended
      /\ Merged(r, s, K).code = IF "code" \in K THEN s.code ELSE r.code
  BY DEF Merged, Columns
<1> QED BY <1>1, <1>2, <1>3

\* Columns in which two rows differ.
LEMMA DifferingColumns ==
  ASSUME NEW r \in Row, NEW s \in Row
  PROVE  /\ Differing(r, s) \subseteq Columns
         /\ "role" \notin Differing(r, s) => r.role = s.role
         /\ "ver" \notin Differing(r, s) => r.ver = s.ver
         /\ "suspended" \notin Differing(r, s) => r.suspended = s.suspended
         /\ "code" \notin Differing(r, s) => r.code = s.code
         /\ r.ver # s.ver => "ver" \in Differing(r, s)
  BY DEF Differing, Columns

LEMMA Fields ==
  ASSUME NEW r \in Row
  PROVE  /\ r.email \in Emails \cup Accounts /\ r.role \in Roles /\ r.ver \in Nat
         /\ r.suspended \in Calls \cup {None} /\ r.deleted \in BOOLEAN
         /\ r.code \in Codes \cup {None} /\ r.link \in Identities \cup {None}
  BY DEF Row

\* The rows that operations mean to leave are rows.
LEMMA NewRows ==
  /\ \A e \in Emails, role \in Roles, i \in Identities \cup {None} : NewRow(e, role, i) \in Row
  /\ \A r \in Row, role \in Roles, v \in Nat, s \in Calls \cup {None} :
       Managed(r, role, v, s) \in Row
  /\ \A r \in Row, e \in Emails \cup Accounts, v \in Nat, x \in BOOLEAN, k \in Codes \cup {None},
        i \in Identities \cup {None} : Owned(r, e, v, x, k, i) \in Row
<1>1. \A e \in Emails, role \in Roles, i \in Identities \cup {None} : NewRow(e, role, i) \in Row
  BY DEF NewRow, Row, Roles
<1>2. \A r \in Row, role \in Roles, v \in Nat, s \in Calls \cup {None} :
        Managed(r, role, v, s) \in Row
  BY DEF Managed, Row
<1>3. \A r \in Row, e \in Emails \cup Accounts, v \in Nat, x \in BOOLEAN, k \in Codes \cup {None},
        i \in Identities \cup {None} : Owned(r, e, v, x, k, i) \in Row
  BY DEF Owned, Row
<1> QED BY <1>1, <1>2, <1>3

-------------------------------------------------------------------------------
(* What a step leaves *)

\* The calls other than c stay where they are.
Apart(c) ==
  \A d \in Calls \ {c} :
    /\ pc'[d] = pc[d] /\ op'[d] = op[d] /\ who'[d] = who[d]
    /\ seen'[d] = seen[d] /\ entity'[d] = entity[d] /\ cols'[d] = cols[d]

\* Calls that are done stay so, and so do suspensions.
Kept ==
  /\ \A k \in Calls : pc[k] = "done" => pc'[k] = "done"
  /\ \A k \in Calls, a \in Accounts : HasSuspended(k, a) => HasSuspended(k, a)'

\* Rows stay, versions grow, nobody becomes an administrator, and a new code is that
\* of a call that was writing it: unless changes collided.
Advances ==
  /\ lost \subseteq lost'
  /\ \A a \in Accounts : row[a] # None =>
       /\ row'[a] # None
       /\ a \notin lost' =>
            /\ row[a].ver <= row'[a].ver
            /\ row'[a].role = "ADMIN" => row[a].role = "ADMIN"
            /\ \/ row'[a].code \in {row[a].code, None}
               \/ row'[a].code \in Calls /\ pc[row'[a].code] = "write"

\* Who is revoked has a version that is over.
Revokes(c) ==
  \A d \in Calls \ {c} : d \in revoked' /\ d \notin revoked =>
    /\ pc[d] \in {"write", "done"}
    /\ who[d] \notin lost' => seen[d].ver < row'[who[d]].ver

\* Another call keeps its part of the invariant.
LEMMA OthersInv ==
  ASSUME IInv, TypeOK', NEW c \in Calls, Apart(c), Kept, Advances, Revokes(c),
         NEW d \in Calls \ {c}, d \in audit' => d \in audit
  PROVE  CallOK(d)' /\ EntityOK(d)' /\ SeenOK(d)'
<1> USE AccountsAssumption
<1>0. /\ pc'[d] = pc[d] /\ op'[d] = op[d] /\ who'[d] = who[d]
      /\ seen'[d] = seen[d] /\ entity'[d] = entity[d] /\ cols'[d] = cols[d]
  BY DEF Apart
<1>1. CallOK(d) /\ EntityOK(d) /\ SeenOK(d)
  BY DEF IInv
<1>2. d \in revoked' /\ d \notin revoked =>
        /\ pc[d] \in {"write", "done"}
        /\ who[d] \notin lost' => seen[d].ver < row'[who[d]].ver
  BY DEF Revokes
<1>3. CallOK(d)'
  BY <1>0, <1>1, <1>2 DEF CallOK, Advances, Phases, IInv, TypeOK
<1>4. EntityOK(d)'
  BY <1>0, <1>1 DEF EntityOK, Makes
<1>5. SeenOK(d)'
  <2> SUFFICES ASSUME seen[d] # None PROVE SeenOK(d)'
    BY <1>0 DEF SeenOK
  <2> DEFINE r == seen[d]
  <2>0. r \in Row
    BY DEF IInv, TypeOK
  <2>1. r.code \in Calls => pc[r.code] = "done" /\ pc'[r.code] = "done"
    BY <1>1 DEF SeenOK, Kept
  <2>2. \A k \in Calls, a \in Accounts :
          pc[d] \in {"compare", "write"} /\ k = r.suspended /\ a = who[d] =>
            HasSuspended(k, a)'
    <3> SUFFICES ASSUME NEW k \in Calls, NEW a \in Accounts,
                        pc[d] \in {"compare", "write"}, k = r.suspended, a = who[d]
                 PROVE  HasSuspended(k, a)'
      OBVIOUS
    <3>1. HasSuspended(k, a)
      BY <1>1 DEF SeenOK, Codes
    <3> QED BY <3>1 DEF Kept
  <2>3. ASSUME who[d] \notin lost'
        PROVE  /\ r.ver <= row'[who[d]].ver
               /\ row'[who[d]].role = "ADMIN" => r.role = "ADMIN"
               /\ pc[d] = "write" /\ op[d] = "suspend" /\ "ver" \notin cols[d] =>
                    r.ver < row'[who[d]].ver
               /\ d \in revoked' => r.ver < row'[who[d]].ver
               /\ op[d] = "reset" /\ pc[d] = "done" =>
                    r.code # None /\ row'[who[d]].code # r.code
    <3>1. who[d] \in Accounts /\ row[who[d]] # None
      BY <1>1 DEF CallOK
    <3>2. who[d] \notin lost
      BY <2>3 DEF Advances
    <3>3. row[who[d]] \in Row /\ row'[who[d]] \in Row
      BY <3>1 DEF IInv, TypeOK, Advances
    <3>4. /\ row[who[d]].ver <= row'[who[d]].ver
          /\ row'[who[d]].role = "ADMIN" => row[who[d]].role = "ADMIN"
          /\ \/ row'[who[d]].code \in {row[who[d]].code, None}
             \/ row'[who[d]].code \in Calls /\ pc[row'[who[d]].code] = "write"
      BY <3>1, <2>3 DEF Advances
    <3>5. r.ver \in Nat /\ row[who[d]].ver \in Nat /\ row'[who[d]].ver \in Nat
      BY <2>0, <3>3 DEF Row
    <3>6. /\ r.ver <= row'[who[d]].ver
          /\ row'[who[d]].role = "ADMIN" => r.role = "ADMIN"
      BY <1>1, <3>2, <3>4, <3>5 DEF SeenOK
    <3>7. pc[d] = "write" /\ op[d] = "suspend" /\ "ver" \notin cols[d] =>
            r.ver < row'[who[d]].ver
      BY <1>1, <3>2, <3>4, <3>5 DEF SeenOK
    <3>8. d \in revoked' => r.ver < row'[who[d]].ver
      BY <1>1, <1>2, <2>3, <3>2, <3>4, <3>5 DEF SeenOK
    <3>9. op[d] = "reset" /\ pc[d] = "done" => r.code # None /\ row'[who[d]].code # r.code
      <4> SUFFICES ASSUME op[d] = "reset", pc[d] = "done"
                   PROVE  r.code # None /\ row'[who[d]].code # r.code
        OBVIOUS
      <4>1. r.code # None /\ row[who[d]].code # r.code
        BY <1>1, <3>2 DEF SeenOK, HasReset
      <4>2. row'[who[d]].code \in Calls /\ pc[row'[who[d]].code] = "write" =>
              row'[who[d]].code # r.code
        BY <2>1
      <4> QED BY <4>1, <4>2, <3>4
    <3> QED BY <3>6, <3>7, <3>8, <3>9
  <2> QED
    <3>1. r.suspended # None => r.suspended \in Calls
      BY <2>0 DEF Row
    <3>2. who[d] \in Accounts
      BY <1>1 DEF CallOK
    <3> QED BY <1>0, <2>1, <2>2, <2>3, <3>1, <3>2 DEF SeenOK, HasReset, HasSuspended
<1> QED BY <1>3, <1>4, <1>5

\* A step that leaves the rows alone.
LEMMA RowsInv ==
  ASSUME IInv, TypeOK', Kept, row' = row, lost' = lost,
         \A d \in Calls : op'[d] = "reset" /\ pc'[d] = "done" =>
           /\ op[d] = "reset" /\ pc[d] = "done"
           /\ who'[d] = who[d] /\ seen'[d] = seen[d]
  PROVE  CodesOK' /\ AdminsNotSuspended' /\ CodeUsedOnce' /\ SuspensionsAreLogged'
<1> USE AccountsAssumption
<1>1. CodesOK'
  BY DEF IInv, CodesOK, Kept
<1>2. AdminsNotSuspended'
  BY DEF IInv, AdminsNotSuspended
<1>3. CodeUsedOnce'
  BY DEF IInv, CodeUsedOnce, HasReset
<1>4. SuspensionsAreLogged'
  <2> SUFFICES ASSUME NEW a \in Accounts, row[a] # None, row[a].suspended # None
               PROVE  \A k \in Calls : k = row[a].suspended => HasSuspended(k, a)'
    BY DEF SuspensionsAreLogged, IInv, TypeOK, Row, HasSuspended
  <2> QED BY DEF IInv, SuspensionsAreLogged, Kept
<1> QED BY <1>1, <1>2, <1>3, <1>4

\* The invariant of the next state, from its parts.
LEMMA Together ==
  ASSUME TypeOK', NEW c \in Calls,
         CallOK(c)' /\ EntityOK(c)' /\ SeenOK(c)',
         \A d \in Calls \ {c} : CallOK(d)' /\ EntityOK(d)' /\ SeenOK(d)',
         CodesOK' /\ AdminsNotSuspended' /\ CodeUsedOnce' /\ SuspensionsAreLogged'
  PROVE  IInv'
  BY DEF IInv

-------------------------------------------------------------------------------
(* Calls that begin *)

LEMMA BeginInv ==
  ASSUME IInv, NEW c \in Calls, NEW phase \in {"insert", "compare", "write"},
         NEW o \in Operations, NEW a \in Accounts \cup {None}, NEW was \in Row \cup {None},
         NEW r \in Row, NEW K \in SUBSET Columns,
         Begin(c, phase, o, a, was, r, K),
         phase = "insert" =>
           /\ o \in {"login", "register"} /\ a = None /\ was = None
           /\ r.role # "ADMIN" /\ r.suspended = None /\ r.code = None,
         phase # "insert" =>
           /\ o # "register" /\ a \in Accounts /\ row[a] # None /\ was = row[a]
           /\ Makes(c, o, was, r, K),
         phase = "compare" => o \in Saves,
         phase = "write" => o # "suspend"
  PROVE  IInv'
<1> USE AccountsAssumption
<1>0. /\ pc[c] = "new"
      /\ pc' = [pc EXCEPT ![c] = phase] /\ op' = [op EXCEPT ![c] = o]
      /\ who' = [who EXCEPT ![c] = a] /\ seen' = [seen EXCEPT ![c] = was]
      /\ entity' = [entity EXCEPT ![c] = r] /\ cols' = [cols EXCEPT ![c] = K]
      /\ row' = row /\ audit' = audit /\ expired' = expired
      /\ revoked' = revoked /\ lost' = lost
  BY DEF Begin, Goto, table, history
<1>1. TypeOK'
  BY <1>0 DEF IInv, TypeOK, Phases
<1>2. /\ pc'[c] = phase /\ op'[c] = o /\ who'[c] = a /\ seen'[c] = was
      /\ entity'[c] = r /\ cols'[c] = K
  BY <1>0 DEF IInv, TypeOK
<1>3. op[c] = None /\ c \notin audit /\ c \notin revoked
  BY <1>0 DEF IInv, CallOK
<1>4. Apart(c)
  BY <1>0 DEF Apart, IInv, TypeOK
<1>5. Kept
  <2>1. \A k \in Calls \ {c} : pc'[k] = pc[k] /\ op'[k] = op[k] /\ who'[k] = who[k]
    BY <1>4 DEF Apart
  <2>2. \A x \in Accounts : ~HasSuspended(c, x)
    BY <1>3 DEF HasSuspended, Operations, Endings
  <2> QED BY <1>0, <2>1, <2>2 DEF Kept, HasSuspended
<1>6. Advances
  BY <1>0 DEF Advances, IInv, TypeOK, Row
<1>7. \A d \in Calls \ {c} : CallOK(d)' /\ EntityOK(d)' /\ SeenOK(d)'
  BY <1>0, <1>1, <1>4, <1>5, <1>6, OthersInv DEF Revokes
<1>8. CodesOK' /\ AdminsNotSuspended' /\ CodeUsedOnce' /\ SuspensionsAreLogged'
  <2>1. \A d \in Calls : op'[d] = "reset" /\ pc'[d] = "done" =>
          /\ op[d] = "reset" /\ pc[d] = "done"
          /\ who'[d] = who[d] /\ seen'[d] = seen[d]
    BY <1>2, <1>4 DEF Apart
  <2> QED BY <1>0, <1>1, <1>5, <2>1, RowsInv
<1>9. CallOK(c)'
  BY <1>0, <1>2, <1>3 DEF CallOK
<1>10. EntityOK(c)'
  BY <1>2 DEF EntityOK, Makes
<1>11. SeenOK(c)'
  <2> SUFFICES ASSUME phase # "insert" PROVE SeenOK(c)'
    BY <1>2 DEF SeenOK
  <2>1. was \in Row /\ was = row'[who'[c]]
    BY <1>0, <1>2 DEF IInv, TypeOK
  <2>2. was.code \in Calls => pc'[was.code] = "done"
    BY <1>0, <1>2, <1>5 DEF IInv, CodesOK, Kept
  <2>3. was.suspended # None =>
          was.suspended \in Calls /\ \A k \in Calls : k = was.suspended => HasSuspended(k, a)'
    BY <2>1, <1>5 DEF IInv, SuspensionsAreLogged, Kept, Row
  <2>4. was.ver <= was.ver
    BY <2>1 DEF Row
  <2> QED BY <1>0, <1>2, <1>3, <2>1, <2>2, <2>3, <2>4 DEF SeenOK, HasReset, HasSuspended
<1> QED BY <1>1, <1>7, <1>8, <1>9, <1>10, <1>11, Together

LEMMA UpdateInv ==
  ASSUME IInv, NEW c \in Calls, NEW o \in {"login", "request", "reset", "delete"},
         NEW a \in Accounts, NEW r, row[a] \in Row => r \in Row, NEW K \in SUBSET Columns,
         StartUpdate(c, o, a, r, K), row[a] \in Row => Makes(c, o, row[a], r, K)
  PROVE  IInv'
<1>1. row[a] \in Row /\ row[a] # None /\ Begin(c, "write", o, a, row[a], r, K)
  BY DEF StartUpdate, Active, IInv, TypeOK
<1>2. o \in Operations /\ o # "register" /\ o # "suspend"
  BY DEF Operations, Endings
<1> QED BY <1>1, <1>2, BeginInv

LEMMA SaveInv ==
  ASSUME IInv, NEW c \in Calls, NEW o \in Saves,
         NEW a \in Accounts, NEW r, row[a] \in Row => r \in Row,
         StartSave(c, o, a, r), row[a] \in Row => Makes(c, o, row[a], r, {})
  PROVE  IInv'
<1>1. row[a] \in Row /\ row[a] # None /\ Begin(c, "compare", o, a, row[a], r, {})
  BY DEF StartSave, Active, IInv, TypeOK
<1>2. o \in Operations /\ o # "register"
  BY DEF Operations, Saves
<1> QED BY <1>1, <1>2, BeginInv

LEMMA InsertionInv ==
  ASSUME IInv, NEW c \in Calls, NEW o \in {"login", "register"}, NEW e \in Emails,
         NEW role \in Roles, role # "ADMIN", NEW i \in Identities \cup {None},
         StartInsert(c, o, e, role, i)
  PROVE  IInv'
<1>1. NewRow(e, role, i) \in Row
  BY NewRows
<1>2. /\ NewRow(e, role, i).role # "ADMIN" /\ NewRow(e, role, i).suspended = None
      /\ NewRow(e, role, i).code = None
  BY DEF NewRow
<1>3. o \in Operations
  BY DEF Operations
<1> QED BY <1>1, <1>2, <1>3, BeginInv DEF StartInsert

LEMMA ArriveInv ==
  ASSUME IInv, NEW c \in Calls, Arrive(c)
  PROVE  IInv'
<1>1. CASE \E i \in Identities, e \in Emails : StartLogin(c, i, e)
  <2> PICK i \in Identities, e \in Emails : StartLogin(c, i, e)
    BY <1>1
  <2> PICK a \in Accounts : StartUpdate(c, "login", a,
        Owned(row[a], row[a].email, row[a].ver, row[a].deleted, row[a].code, i),
        IF row[a].link = i THEN {} ELSE {"link"})
    BY DEF StartLogin, FoundForProfile, Addressed
  <2> DEFINE r == Owned(row[a], row[a].email, row[a].ver, row[a].deleted, row[a].code, i)
             K == IF row[a].link = i THEN {} ELSE {"link"}
  <2>1. row[a] \in Row => r \in Row
    BY Fields, NewRows
  <2>2. Makes(c, "login", row[a], r, K)
    BY DEF Makes, Owned, Endings
  <2>3. K \in SUBSET Columns
    BY DEF Columns
  <2> QED BY <2>1, <2>2, <2>3, UpdateInv
<1>2. CASE \E i \in Identities, e \in Emails : StartFirstLogin(c, i, e)
  BY <1>2, InsertionInv DEF StartFirstLogin, Roles
<1>3. CASE \E e \in Emails, role \in Roles : StartRegister(c, e, role)
  BY <1>3, InsertionInv DEF StartRegister
<1>4. ASSUME NEW a \in Accounts, StartRequest(c, a) PROVE IInv'
  <2> DEFINE r == Owned(row[a], row[a].email, row[a].ver, row[a].deleted, c, row[a].link)
  <2>1. row[a] \in Row => r \in Row
    BY Fields, NewRows DEF Codes
  <2>2. Makes(c, "request", row[a], r, {"code"})
    BY DEF Makes, Owned, Endings
  <2>3. StartUpdate(c, "request", a, r, {"code"}) /\ {"code"} \in SUBSET Columns
    BY <1>4 DEF StartRequest, Columns
  <2> QED BY <2>1, <2>2, <2>3, UpdateInv
<1>5. ASSUME NEW a \in Accounts, StartReset(c, a) PROVE IInv'
  <2> DEFINE r == Owned(row[a], row[a].email, row[a].ver + 1, row[a].deleted, None, row[a].link)
  <2>1. row[a] \in Row => r \in Row
    <3>1. row[a] \in Row => row[a].ver + 1 \in Nat
      BY Fields
    <3> QED BY <3>1, Fields, NewRows
  <2>2. Makes(c, "reset", row[a], r, {"ver", "code"})
    BY <1>5 DEF Makes, Owned, Endings, StartReset
  <2>3. StartUpdate(c, "reset", a, r, {"ver", "code"}) /\ {"ver", "code"} \in SUBSET Columns
    BY <1>5 DEF StartReset, Columns
  <2> QED BY <2>1, <2>2, <2>3, UpdateInv
<1>6. ASSUME NEW a \in Accounts, StartDelete(c, a) PROVE IInv'
  <2> DEFINE r == Owned(row[a], a, row[a].ver + 1, TRUE, row[a].code, row[a].link)
             K == {"email", "deleted", "ver"}
  <2>1. row[a] \in Row => r \in Row
    <3>1. row[a] \in Row => /\ row[a].ver + 1 \in Nat /\ row[a].code \in Codes \cup {None}
                           /\ row[a].link \in Identities \cup {None}
      BY Fields
    <3> SUFFICES ASSUME row[a] \in Row PROVE r \in Row
      OBVIOUS
    <3>2. r \in [email : Emails \cup Accounts, role : Roles, ver : Nat,
                suspended : Calls \cup {None}, deleted : BOOLEAN,
                code : Codes \cup {None}, link : Identities \cup {None}]
      BY <3>1, Fields DEF Owned
    <3> QED BY <3>2 DEF Row
  <2>2. Makes(c, "delete", row[a], r, K)
    BY DEF Makes, Owned, Endings
  <2>3. StartUpdate(c, "delete", a, r, K) /\ K \in SUBSET Columns
    BY <1>6 DEF StartDelete, Columns
  <2> QED BY <2>1, <2>2, <2>3, UpdateInv
<1>7. ASSUME NEW a \in Accounts, NEW role \in Roles, StartUpdateRole(c, a, role) PROVE IInv'
  <2> DEFINE r == Managed(row[a], role, row[a].ver, row[a].suspended)
  <2>1. row[a] \in Row => r \in Row
    <3>1. row[a] \in Row => row[a].ver \in Nat /\ row[a].suspended \in Calls \cup {None}
      BY Fields
    <3> QED BY <3>1, NewRows
  <2>2. Makes(c, "role", row[a], r, {})
    BY <1>7 DEF Makes, Managed, Endings, StartUpdateRole
  <2> QED BY <1>7, <2>1, <2>2, SaveInv DEF StartUpdateRole, Saves
<1>8. ASSUME NEW a \in Accounts, StartSuspend(c, a) PROVE IInv'
  <2> DEFINE r == Managed(row[a], row[a].role, row[a].ver + 1, c)
  <2>1. row[a] \in Row => r \in Row
    BY Fields, NewRows
  <2>2. Makes(c, "suspend", row[a], r, {})
    BY <1>8 DEF Makes, Managed, Endings, StartSuspend
  <2> QED BY <1>8, <2>1, <2>2, SaveInv DEF StartSuspend, Saves
<1>9. ASSUME NEW a \in Accounts, StartUnsuspend(c, a) PROVE IInv'
  <2> DEFINE r == Managed(row[a], row[a].role, row[a].ver, None)
  <2>1. row[a] \in Row => r \in Row
    BY Fields, NewRows
  <2>2. Makes(c, "unsuspend", row[a], r, {})
    BY DEF Makes, Managed, Endings
  <2> QED BY <1>9, <2>1, <2>2, SaveInv DEF StartUnsuspend, Saves
<1> QED BY <1>1, <1>2, <1>3, <1>4, <1>5, <1>6, <1>7, <1>8, <1>9 DEF Arrive

-------------------------------------------------------------------------------
(* Steps that leave the rows alone *)

LEMMA QuietInv ==
  ASSUME IInv, TypeOK', NEW c \in Calls, Apart(c), Kept,
         row' = row, lost' = lost, revoked' = revoked, audit' \subseteq audit \cup {c},
         ~(op'[c] = "reset" /\ pc'[c] = "done"),
         CallOK(c)' /\ EntityOK(c)' /\ SeenOK(c)'
  PROVE  IInv'
<1>1. Advances
  BY DEF Advances, IInv, TypeOK, Row
<1>2. \A d \in Calls \ {c} : CallOK(d)' /\ EntityOK(d)' /\ SeenOK(d)'
  BY <1>1, OthersInv DEF Revokes
<1>3. \A d \in Calls : op'[d] = "reset" /\ pc'[d] = "done" =>
        /\ op[d] = "reset" /\ pc[d] = "done"
        /\ who'[d] = who[d] /\ seen'[d] = seen[d]
  BY DEF Apart
<1>4. CodesOK' /\ AdminsNotSuspended' /\ CodeUsedOnce' /\ SuspensionsAreLogged'
  BY <1>3, RowsInv
<1> QED BY <1>2, <1>4, Together

LEMMA CompareInv ==
  ASSUME IInv, NEW c \in Calls, Compare(c)
  PROVE  IInv'
<1> USE AccountsAssumption
<1> DEFINE K == Differing(entity[c], row[who[c]])
<1>0. /\ pc[c] = "compare" /\ pc' = [pc EXCEPT ![c] = "write"]
      /\ cols' = [cols EXCEPT ![c] = K]
      /\ row' = row /\ audit' = audit /\ expired' = expired
      /\ revoked' = revoked /\ lost' = lost
      /\ op' = op /\ who' = who /\ seen' = seen /\ entity' = entity
  BY DEF Compare, Goto, table, history
<1>1. CallOK(c) /\ EntityOK(c) /\ SeenOK(c)
  BY DEF IInv
<1>2. /\ entity[c] \in Row /\ seen[c] \in Row /\ who[c] \in Accounts /\ row[who[c]] \in Row
      /\ op[c] \in Saves
  BY <1>0, <1>1 DEF CallOK, IInv, TypeOK
<1>3. K \in SUBSET Columns
  BY <1>2, DifferingColumns
<1>4. TypeOK'
  BY <1>0, <1>3 DEF IInv, TypeOK, Phases
<1>5. Apart(c)
  BY <1>0 DEF Apart, IInv, TypeOK
<1>6. pc'[c] = "write" /\ cols'[c] = K
  BY <1>0 DEF IInv, TypeOK
<1>7. Kept
  BY <1>0, <1>1, <1>6 DEF Kept, HasSuspended, CallOK, IInv, TypeOK
<1>8. CallOK(c)'
  BY <1>0, <1>1, <1>6 DEF CallOK
<1>9. EntityOK(c)'
  BY <1>0, <1>1, <1>2, <1>6 DEF EntityOK, Makes, Saves
<1>10. SeenOK(c)'
  <2>1. who[c] \notin lost /\ op[c] = "suspend" /\ "ver" \notin K => seen[c].ver < row[who[c]].ver
    <3> SUFFICES ASSUME who[c] \notin lost, op[c] = "suspend", "ver" \notin K
                 PROVE  seen[c].ver < row[who[c]].ver
      OBVIOUS
    <3>1. entity[c].ver = row[who[c]].ver
      BY <1>2, DifferingColumns
    <3>2. entity[c].ver = seen[c].ver + 1 /\ seen[c].ver \in Nat
      BY <1>0, <1>1, <1>2, Fields DEF EntityOK, Makes, Endings
    <3> QED BY <3>1, <3>2
  <2>2. c \in Calls /\ seen[c].suspended # None =>
          seen[c].suspended \in Calls /\ \A k \in Calls : k = seen[c].suspended => HasSuspended(k, who[c])
    BY <1>0, <1>1, <1>2 DEF SeenOK, Row
  <2>3. \A k \in Calls, a \in Accounts : HasSuspended(k, a) => HasSuspended(k, a)'
    BY <1>7 DEF Kept
  <2>4. \A k \in Calls, a \in Accounts :
          k = seen[c].suspended /\ a = who[c] => HasSuspended(k, a)'
    BY <2>2, <2>3 DEF Codes
  <2> QED BY <1>0, <1>1, <1>2, <1>6, <1>7, <2>1, <2>2, <2>4 DEF SeenOK, Kept, HasReset, HasSuspended
<1> QED BY <1>0, <1>4, <1>5, <1>6, <1>7, <1>8, <1>9, <1>10, QuietInv

LEMMA LogInv ==
  ASSUME IInv, NEW c \in Calls, Log(c)
  PROVE  IInv'
<1> USE AccountsAssumption
<1>0. /\ pc[c] = "log" /\ pc' = [pc EXCEPT ![c] = "done"] /\ audit' = audit \cup {c}
      /\ row' = row /\ expired' = expired /\ revoked' = revoked /\ lost' = lost
      /\ op' = op /\ who' = who /\ seen' = seen /\ entity' = entity /\ cols' = cols
  BY DEF Log, Goto, table, history
<1>1. CallOK(c) /\ EntityOK(c) /\ SeenOK(c)
  BY DEF IInv
<1>2. op[c] \in Saves
  BY <1>0, <1>1 DEF CallOK
<1>3. TypeOK'
  BY <1>0 DEF IInv, TypeOK, Ended
<1>4. pc'[c] = "done" /\ Apart(c)
  BY <1>0 DEF Apart, IInv, TypeOK
<1>5. Kept
  BY <1>0 DEF Kept, HasSuspended, IInv, TypeOK
<1>6. CallOK(c)' /\ EntityOK(c)'
  BY <1>0, <1>1, <1>4 DEF CallOK, EntityOK
<1>7. SeenOK(c)'
  BY <1>0, <1>1, <1>2, <1>4, <1>5 DEF SeenOK, Kept, HasReset, Saves
<1> QED BY <1>0, <1>2, <1>3, <1>4, <1>5, <1>6, <1>7, QuietInv DEF Saves

LEMMA LogFailsInv ==
  ASSUME IInv, NEW c \in Calls, LogFails(c)
  PROVE  IInv'
<1> USE AccountsAssumption
<1>0. /\ pc[c] = "log" /\ pc' = [pc EXCEPT ![c] = "failed"]
      /\ row' = row /\ audit' = audit /\ expired' = expired /\ revoked' = revoked /\ lost' = lost
      /\ op' = op /\ who' = who /\ seen' = seen /\ entity' = entity /\ cols' = cols
  BY DEF LogFails, Goto, table, history
<1>1. CallOK(c) /\ EntityOK(c) /\ SeenOK(c)
  BY DEF IInv
<1>3. TypeOK'
  BY <1>0 DEF IInv, TypeOK, Ended
<1>4. pc'[c] = "failed" /\ Apart(c)
  BY <1>0 DEF Apart, IInv, TypeOK
<1>5. Kept
  BY <1>0 DEF Kept, HasSuspended, IInv, TypeOK
<1>6. CallOK(c)' /\ EntityOK(c)'
  BY <1>0, <1>1, <1>4 DEF CallOK, EntityOK
<1>7. SeenOK(c)'
  BY <1>0, <1>1, <1>4, <1>5 DEF SeenOK, Kept, HasReset
<1> QED BY <1>0, <1>3, <1>4, <1>5, <1>6, <1>7, QuietInv

LEMMA FailsInv ==
  ASSUME IInv, NEW c \in Calls, Fails(c)
  PROVE  IInv'
<1> USE AccountsAssumption
<1>0. /\ pc[c] \in {"insert", "compare", "write"} /\ pc' = [pc EXCEPT ![c] = "failed"]
      /\ op' = [op EXCEPT ![c] = None] /\ who' = [who EXCEPT ![c] = None]
      /\ seen' = [seen EXCEPT ![c] = None] /\ entity' = [entity EXCEPT ![c] = None]
      /\ cols' = [cols EXCEPT ![c] = {}]
      /\ row' = row /\ audit' = audit /\ expired' = expired /\ revoked' = revoked /\ lost' = lost
  BY DEF Fails, Goto, table, history
<1>1. CallOK(c)
  BY DEF IInv
<1>3. TypeOK'
  BY <1>0 DEF IInv, TypeOK, Ended
<1>4. pc'[c] = "failed" /\ seen'[c] = None /\ Apart(c)
  BY <1>0 DEF Apart, IInv, TypeOK
<1>5. Kept
  BY <1>0, <1>1 DEF Kept, HasSuspended, IInv, TypeOK, CallOK
<1>6. CallOK(c)' /\ EntityOK(c)' /\ SeenOK(c)'
  BY <1>0, <1>1, <1>4 DEF CallOK, EntityOK, SeenOK
<1> QED BY <1>0, <1>3, <1>4, <1>5, <1>6, QuietInv

LEMMA CodeExpiresInv ==
  ASSUME IInv, NEW k \in Codes, CodeExpires(k)
  PROVE  IInv'
<1>0. /\ expired' = expired \cup {k}
      /\ row' = row /\ audit' = audit /\ pc' = pc /\ op' = op /\ who' = who /\ seen' = seen
      /\ entity' = entity /\ cols' = cols /\ revoked' = revoked /\ lost' = lost
  BY DEF CodeExpires, table, calls, history
<1>1. TypeOK'
  BY <1>0 DEF IInv, TypeOK
<1>2. \A c \in Calls : CallOK(c)' /\ EntityOK(c)' /\ SeenOK(c)'
  BY <1>0 DEF IInv, CallOK, EntityOK, Makes, SeenOK, HasReset, HasSuspended
<1>3. CodesOK' /\ AdminsNotSuspended' /\ CodeUsedOnce' /\ SuspensionsAreLogged'
  BY <1>0 DEF IInv, CodesOK, AdminsNotSuspended, CodeUsedOnce, SuspensionsAreLogged, HasReset,
              HasSuspended
<1> QED BY <1>1, <1>2, <1>3 DEF IInv

LEMMA StutterInv ==
  ASSUME IInv, UNCHANGED vars
  PROVE  IInv'
<1>0. /\ row' = row /\ audit' = audit /\ pc' = pc /\ op' = op /\ who' = who /\ seen' = seen
      /\ entity' = entity /\ cols' = cols /\ revoked' = revoked /\ lost' = lost
      /\ expired' = expired
  BY DEF vars, table, calls, history
<1>1. TypeOK'
  BY <1>0 DEF IInv, TypeOK
<1>2. \A c \in Calls : CallOK(c)' /\ EntityOK(c)' /\ SeenOK(c)'
  BY <1>0 DEF IInv, CallOK, EntityOK, Makes, SeenOK, HasReset, HasSuspended
<1>3. CodesOK' /\ AdminsNotSuspended' /\ CodeUsedOnce' /\ SuspensionsAreLogged'
  BY <1>0 DEF IInv, CodesOK, AdminsNotSuspended, CodeUsedOnce, SuspensionsAreLogged, HasReset,
              HasSuspended
<1> QED BY <1>1, <1>2, <1>3 DEF IInv

-------------------------------------------------------------------------------
(* INSERT *)

LEMMA InsertInv ==
  ASSUME IInv, NEW c \in Calls, NEW a \in Accounts, Insert(c, a)
  PROVE  IInv'
<1> USE AccountsAssumption
<1> DEFINE r == entity[c]
<1>0. /\ pc[c] = "insert" /\ pc' = [pc EXCEPT ![c] = "done"]
      /\ row[a] = None /\ row' = [row EXCEPT ![a] = r]
      /\ who' = [who EXCEPT ![c] = a] /\ seen' = [seen EXCEPT ![c] = r]
      /\ entity' = [entity EXCEPT ![c] = None]
      /\ audit' = audit /\ expired' = expired /\ op' = op /\ cols' = cols
      /\ revoked' = revoked /\ lost' = lost
  BY DEF Insert, Goto, history
<1>1. CallOK(c)
  BY DEF IInv
<1>2. /\ r \in Row /\ r # None /\ op[c] \in {"login", "register"}
      /\ r.role # "ADMIN" /\ r.suspended = None /\ r.code = None
      /\ c \notin revoked /\ c \notin audit
  BY <1>0, <1>1 DEF CallOK, IInv, TypeOK
<1>3. TypeOK'
  BY <1>0, <1>2 DEF IInv, TypeOK, Ended
<1>4. /\ pc'[c] = "done" /\ who'[c] = a /\ seen'[c] = r /\ row'[a] = r
      /\ \A b \in Accounts \ {a} : row'[b] = row[b]
      /\ Apart(c)
  BY <1>0 DEF Apart, IInv, TypeOK
<1>5. Kept
  <2>1. \A k \in Calls, b \in Accounts : HasSuspended(k, b) => k # c
    BY <1>2 DEF HasSuspended
  <2> QED BY <1>0, <1>4, <2>1 DEF Kept, HasSuspended, Apart
<1>6. Advances
  BY <1>0, <1>4, <1>2 DEF Advances, IInv, TypeOK, Row
<1>7. \A d \in Calls \ {c} : CallOK(d)' /\ EntityOK(d)' /\ SeenOK(d)'
  BY <1>0, <1>3, <1>4, <1>5, <1>6, OthersInv DEF Revokes
<1>8. CallOK(c)' /\ EntityOK(c)'
  BY <1>0, <1>2, <1>4 DEF CallOK, EntityOK
<1>9. SeenOK(c)'
  BY <1>0, <1>2, <1>4, Fields DEF SeenOK, HasReset, Codes
<1>10. CodesOK'
  BY <1>2, <1>4, <1>5 DEF IInv, CodesOK, Kept, Codes
<1>11. AdminsNotSuspended'
  BY <1>0, <1>2, <1>4 DEF IInv, AdminsNotSuspended
<1>12. CodeUsedOnce'
  BY <1>0, <1>2, <1>4 DEF IInv, CodeUsedOnce, HasReset, Apart
<1>13. SuspensionsAreLogged'
  <2> SUFFICES ASSUME NEW b \in Accounts, row'[b] # None, row'[b].suspended # None
               PROVE  \A k \in Calls : k = row'[b].suspended => HasSuspended(k, b)'
    BY <1>3 DEF SuspensionsAreLogged, TypeOK, Row, HasSuspended
  <2>1. b # a /\ row'[b] = row[b]
    BY <1>2, <1>4
  <2> QED BY <2>1, <1>5 DEF IInv, SuspensionsAreLogged, Kept
<1> QED BY <1>3, <1>7, <1>8, <1>9, <1>10, <1>11, <1>12, <1>13, Together

-------------------------------------------------------------------------------
(* UPDATE *)

\* What an UPDATE makes of its row.
LEMMA WriteRow ==
  ASSUME IInv, NEW c \in Calls, Write(c),
         NEW a, a = who[c], NEW r, r = Merged(row[a], entity[c], cols[c])
  PROVE  /\ a \in Accounts /\ row[a] \in Row /\ row[a] # None /\ r \in Row /\ r # None
         /\ r.code \in Calls => (r.code = c /\ op[c] = "request") \/ pc[r.code] = "done"
         /\ r.suspended # None =>
              (r.suspended = c /\ op[c] = "suspend") \/ HasSuspended(r.suspended, a)
         /\ a \notin lost' =>
              /\ a \notin lost
              /\ row[a].ver <= r.ver
              /\ op[c] \in Endings => row[a].ver < r.ver
              /\ r.role = "ADMIN" => row[a].role = "ADMIN" /\ r.suspended = None
              /\ op[c] = "request" => r.code = c
              /\ op[c] = "reset" => r.code = None /\ row[a].code = seen[c].code
              /\ op[c] \notin {"request", "reset"} => r.code = row[a].code
<1> USE AccountsAssumption
<1> DEFINE s == entity[c]
           t == seen[c]
           K == cols[c]
           o == op[c]
<1>1. pc[c] = "write" /\ lost' = IF Overwrites(c) THEN lost \cup {a} ELSE lost
  BY DEF Write
<1>2. CallOK(c) /\ EntityOK(c) /\ SeenOK(c)
  BY DEF IInv
<1>3. /\ a \in Accounts /\ row[a] \in Row /\ row[a] # None /\ s \in Row /\ t \in Row
      /\ t # None /\ K \in SUBSET Columns /\ o \in Operations /\ o # "register"
  BY <1>1, <1>2 DEF CallOK, IInv, TypeOK
<1>4. /\ r \in Row /\ r # None
      /\ r.role = IF "role" \in K THEN s.role ELSE row[a].role
      /\ r.ver = IF "ver" \in K THEN s.ver ELSE row[a].ver
      /\ r.suspended = IF "suspended" \in K THEN s.suspended ELSE row[a].suspended
      /\ r.code = IF "code" \in K THEN s.code ELSE row[a].code
  BY <1>3, MergedRow
<1>5. Makes(c, o, t, s, K)
  BY <1>1, <1>2 DEF EntityOK
<1>6. o \in {"login", "request", "reset", "delete", "role", "suspend", "unsuspend"}
  BY <1>3 DEF Operations, Saves, Endings
<1>7. r.code \in Calls => (r.code = c /\ o = "request") \/ pc[r.code] = "done"
  <2>1. row[a].code \in Calls => pc[row[a].code] = "done"
    BY <1>3 DEF IInv, CodesOK
  <2>2. t.code \in Calls => pc[t.code] = "done"
    BY <1>2, <1>3 DEF SeenOK
  <2>3. None \notin Calls
    BY DEF Codes
  <2> QED BY <1>4, <1>5, <1>6, <2>1, <2>2, <2>3 DEF Makes
<1>8. r.suspended # None => (r.suspended = c /\ o = "suspend") \/ HasSuspended(r.suspended, a)
  <2>1. row[a].suspended # None => HasSuspended(row[a].suspended, a)
    BY <1>3 DEF IInv, SuspensionsAreLogged
  <2>2. t.suspended # None => HasSuspended(t.suspended, a)
    BY <1>1, <1>2, <1>3 DEF SeenOK
  <2> QED BY <1>4, <1>5, <1>6, <2>1, <2>2 DEF Makes
<1>9. ASSUME a \notin lost'
      PROVE  /\ a \notin lost
             /\ row[a].ver <= r.ver
             /\ o \in Endings => row[a].ver < r.ver
             /\ r.role = "ADMIN" => row[a].role = "ADMIN" /\ r.suspended = None
             /\ o = "request" => r.code = c
             /\ o = "reset" => r.code = None /\ row[a].code = t.code
             /\ o \notin {"request", "reset"} => r.code = row[a].code
  <2>1. a \notin lost /\ ~Overwrites(c)
    BY <1>1, <1>9
  <2>2. o \notin {"login", "request"} =>
          \A k \in K \cup Differing(s, t) : k \notin Differing(row[a], t)
    BY <2>1, <1>6 DEF Overwrites, Assigned, Operations, Saves, Endings
  <2>3. o \notin {"login", "request"} =>
          /\ "ver" \in K \cup Differing(s, t) => row[a].ver = t.ver
          /\ "role" \in K => row[a].role = t.role
          /\ "suspended" \in K => row[a].suspended = t.suspended
          /\ "code" \in K => row[a].code = t.code
    BY <1>3, <2>2, DifferingColumns
  <2>4. s.ver \in Nat /\ t.ver \in Nat /\ row[a].ver \in Nat
    BY <1>3, Fields
  <2>5. /\ t.ver <= row[a].ver
        /\ row[a].role = "ADMIN" => t.role = "ADMIN"
        /\ o = "suspend" /\ "ver" \notin K => t.ver < row[a].ver
    BY <1>1, <1>2, <1>3, <2>1 DEF SeenOK
  <2>6. row[a].ver <= r.ver /\ (o \in Endings => row[a].ver < r.ver)
    <3>1. CASE o \in {"login", "request"}
      BY <3>1, <1>4, <1>5, <2>4 DEF Makes, Endings
    <3>2. CASE o \in {"role", "unsuspend"}
      BY <3>2, <1>4, <1>5, <2>3, <2>4 DEF Makes, Endings
    <3>3. CASE o \in {"reset", "delete"}
      BY <3>3, <1>4, <1>5, <2>3, <2>4 DEF Makes, Endings
    <3>4. CASE o = "suspend"
      <4>1. s.ver = t.ver + 1
        BY <3>4, <1>5 DEF Makes, Endings
      <4>2. "ver" \in Differing(s, t)
        BY <4>1, <2>4, <1>3, DifferingColumns
      <4>3. row[a].ver = t.ver
        BY <3>4, <4>2, <2>3
      <4> QED BY <3>4, <4>1, <4>3, <1>4, <2>4, <2>5
    <3> QED BY <1>6, <3>1, <3>2, <3>3, <3>4
  <2>7. row[a].role = "ADMIN" => row[a].suspended = None
    BY <1>3, <2>1 DEF IInv, AdminsNotSuspended
  <2>8. r.role = "ADMIN" => row[a].role = "ADMIN"
    BY <1>4, <1>5, <1>6, <2>3 DEF Makes
  <2>9. r.role = "ADMIN" => r.suspended = None
    BY <1>4, <1>5, <1>6, <2>3, <2>5, <2>7, <2>8 DEF Makes
  <2>10. /\ o = "request" => r.code = c
         /\ o = "reset" => r.code = None /\ row[a].code = t.code
         /\ o \notin {"request", "reset"} => r.code = row[a].code
    BY <1>4, <1>5, <1>6, <2>3 DEF Makes
  <2> QED BY <2>1, <2>6, <2>8, <2>9, <2>10
<1> QED BY <1>3, <1>4, <1>7, <1>8, <1>9

LEMMA WriteInv ==
  ASSUME IInv, NEW c \in Calls, Write(c)
  PROVE  IInv'
<1> USE AccountsAssumption
<1> DEFINE a == who[c]
           r == Merged(row[a], entity[c], cols[c])
           after == IF op[c] \in Saves THEN "log" ELSE "done"
<1>0. /\ pc[c] = "write" /\ pc' = [pc EXCEPT ![c] = after]
      /\ row' = [row EXCEPT ![a] = r]
      /\ revoked' = IF op[c] \in Endings THEN revoked \cup Logins(a) ELSE revoked
      /\ lost' = IF Overwrites(c) THEN lost \cup {a} ELSE lost
      /\ entity' = [entity EXCEPT ![c] = None] /\ cols' = [cols EXCEPT ![c] = {}]
      /\ audit' = audit /\ expired' = expired /\ op' = op /\ who' = who /\ seen' = seen
  BY DEF Write, Goto
<1>1. CallOK(c) /\ EntityOK(c) /\ SeenOK(c)
  BY DEF IInv
<1>2. /\ a \in Accounts /\ row[a] \in Row /\ row[a] # None /\ r \in Row /\ r # None
      /\ r.code \in Calls => (r.code = c /\ op[c] = "request") \/ pc[r.code] = "done"
      /\ r.suspended # None =>
           (r.suspended = c /\ op[c] = "suspend") \/ HasSuspended(r.suspended, a)
      /\ a \notin lost' =>
           /\ a \notin lost
           /\ row[a].ver <= r.ver
           /\ op[c] \in Endings => row[a].ver < r.ver
           /\ r.role = "ADMIN" => row[a].role = "ADMIN" /\ r.suspended = None
           /\ op[c] = "request" => r.code = c
           /\ op[c] = "reset" => r.code = None /\ row[a].code = seen[c].code
           /\ op[c] \notin {"request", "reset"} => r.code = row[a].code
  BY WriteRow
<1>3. /\ seen[c] \in Row /\ seen[c] # None /\ Makes(c, op[c], seen[c], entity[c], cols[c])
      /\ c \notin audit
  BY <1>0, <1>1 DEF CallOK, EntityOK, IInv, TypeOK
<1>4. after \in {"log", "done"} /\ (op[c] \in {"login", "request", "reset"} => after = "done")
      /\ (op[c] = "suspend" => after = "log") /\ (after = "log" => op[c] \in Saves)
  BY DEF Saves
<1>5. TypeOK'
  <2>1. Logins(a) \subseteq Calls
    BY DEF Logins
  <2> HIDE DEF r, a, after
  <2> QED BY <1>0, <1>2, <1>4, <2>1 DEF IInv, TypeOK, Phases, Ended
<1>6. /\ pc'[c] = after /\ row'[a] = r /\ seen'[c] = seen[c] /\ who'[c] = a /\ op'[c] = op[c]
      /\ \A b \in Accounts \ {a} : row'[b] = row[b] /\ (b \in lost' <=> b \in lost)
      /\ Apart(c)
  BY <1>0, <1>2 DEF Apart, IInv, TypeOK
<1> HIDE DEF r, a, after
<1>7. Kept
  <2>1. \A k \in Calls, b \in Accounts : HasSuspended(k, b) => k # c
    BY <1>0, <1>3 DEF HasSuspended
  <2> QED BY <1>0, <1>6, <2>1 DEF Kept, HasSuspended, Apart
<1>8. Advances
  <2>1. lost \subseteq lost'
    BY <1>0
  <2>2. ASSUME NEW b \in Accounts, row[b] # None, b # a
        PROVE  row'[b] = row[b] /\ row[b].ver <= row[b].ver
    BY <1>6, <2>2, Fields DEF IInv, TypeOK
  <2>3. a \notin lost' =>
          /\ row[a].ver <= row'[a].ver
          /\ row'[a].role = "ADMIN" => row[a].role = "ADMIN"
          /\ \/ row'[a].code \in {row[a].code, None}
             \/ row'[a].code \in Calls /\ pc[row'[a].code] = "write"
    BY <1>0, <1>2, <1>6
  <2> QED BY <1>2, <1>6, <2>1, <2>2, <2>3 DEF Advances
<1>9. Revokes(c)
  <2> SUFFICES ASSUME NEW d \in Calls \ {c}, d \in revoked', d \notin revoked
               PROVE  /\ pc[d] \in {"write", "done"}
                      /\ who[d] \notin lost' => seen[d].ver < row'[who[d]].ver
    BY DEF Revokes
  <2>1. op[c] \in Endings /\ op[d] = "login" /\ who[d] = a /\ pc[d] # "failed"
    BY <1>0 DEF Logins
  <2>2. CallOK(d) /\ SeenOK(d)
    BY DEF IInv
  <2>3. pc[d] \in {"write", "done"} /\ seen[d] # None /\ seen[d] \in Row
    BY <1>2, <2>1, <2>2 DEF CallOK, IInv, TypeOK, Phases, Ended, Saves, Operations
  <2>4. a \notin lost' => seen[d].ver <= row[a].ver /\ row[a].ver < r.ver
    BY <1>2, <2>1, <2>2, <2>3 DEF SeenOK
  <2>5. seen[d].ver \in Nat /\ row[a].ver \in Nat /\ r.ver \in Nat
    BY <1>2, <2>3, Fields
  <2> QED BY <1>6, <2>1, <2>3, <2>4, <2>5
<1>10. \A d \in Calls \ {c} : CallOK(d)' /\ EntityOK(d)' /\ SeenOK(d)'
  BY <1>0, <1>5, <1>6, <1>7, <1>8, <1>9, OthersInv
<1>11. c \in revoked' => c \in revoked
  BY <1>0 DEF Logins, Endings
<1>12. CallOK(c)' /\ EntityOK(c)'
  BY <1>0, <1>2, <1>3, <1>4, <1>6, <1>11 DEF CallOK, EntityOK
<1>13. SeenOK(c)'
  <2>1. seen[c].code \in Calls => pc'[seen[c].code] = "done"
    BY <1>1, <1>3, <1>7 DEF SeenOK, Kept
  <2>2. ASSUME a \notin lost'
        PROVE  /\ seen[c].ver <= r.ver
               /\ r.role = "ADMIN" => seen[c].role = "ADMIN"
               /\ c \in revoked' => seen[c].ver < r.ver
               /\ op[c] = "reset" => seen[c].code # None /\ r.code # seen[c].code
    <3>1. /\ seen[c].ver <= row[a].ver
          /\ row[a].role = "ADMIN" => seen[c].role = "ADMIN"
          /\ c \in revoked => seen[c].ver < row[a].ver
      BY <1>1, <1>2, <1>3, <2>2 DEF SeenOK, a
    <3>2. seen[c].ver \in Nat /\ row[a].ver \in Nat /\ r.ver \in Nat
      BY <1>2, <1>3, Fields
    <3>3. op[c] = "reset" => seen[c].code # None /\ r.code # seen[c].code
      BY <1>2, <1>3, <2>2 DEF Makes
    <3> QED BY <1>2, <1>11, <2>2, <3>1, <3>2, <3>3
  <2> QED BY <1>4, <1>6, <2>1, <2>2 DEF SeenOK, HasReset
<1>14. CodesOK'
  <2> SUFFICES ASSUME NEW b \in Accounts, row'[b] # None, row'[b].code \in Calls
               PROVE  pc'[row'[b].code] = "done"
    BY DEF CodesOK
  <2>1. CASE b = a
    BY <2>1, <1>2, <1>4, <1>6, <1>7 DEF Kept
  <2>2. CASE b # a
    BY <2>2, <1>6, <1>7 DEF IInv, CodesOK, Kept
  <2> QED BY <2>1, <2>2
<1>15. AdminsNotSuspended'
  BY <1>2, <1>6 DEF IInv, AdminsNotSuspended
<1>16. CodeUsedOnce'
  <2> SUFFICES ASSUME NEW d \in Calls, NEW e \in Calls, d # e, who[d] = who[e],
                      HasReset(d)', HasReset(e)', seen[d].code = seen[e].code
               PROVE  who[d] \in lost'
    BY <1>0 DEF CodeUsedOnce
  <2>1. ASSUME NEW x \in Calls, HasReset(x)', x # c PROVE HasReset(x)
    BY <2>1, <1>6 DEF HasReset, Apart
  <2>2. ASSUME NEW x \in Calls, x # c, HasReset(x)', HasReset(c)', who[x] = a,
               seen[x].code = seen[c].code, a \notin lost'
        PROVE  FALSE
    <3>1. HasReset(x) /\ SeenOK(x) /\ CallOK(x)
      BY <2>1, <2>2 DEF IInv
    <3>2. row[a].code # seen[x].code
      BY <1>2, <2>2, <3>1 DEF SeenOK, CallOK, HasReset
    <3>3. op[c] = "reset"
      BY <1>6, <2>2 DEF HasReset
    <3> QED BY <1>2, <2>2, <3>2, <3>3
  <2>3. CASE d # c /\ e # c
    BY <2>1, <2>3, <1>0 DEF IInv, CodeUsedOnce
  <2>4. CASE d = c \/ e = c
    BY <2>2, <2>4 DEF a
  <2> QED BY <2>3, <2>4
<1>17. SuspensionsAreLogged'
  <2> SUFFICES ASSUME NEW b \in Accounts, row'[b] # None, row'[b].suspended # None
               PROVE  \A k \in Calls : k = row'[b].suspended => HasSuspended(k, b)'
    BY <1>5 DEF SuspensionsAreLogged, TypeOK, Row, HasSuspended
  <2>1. CASE b # a
    BY <2>1, <1>6, <1>7 DEF IInv, SuspensionsAreLogged, Kept
  <2>2. CASE b = a /\ r.suspended = c /\ op[c] = "suspend"
    BY <2>2, <1>4, <1>6 DEF HasSuspended
  <2>3. CASE b = a /\ HasSuspended(r.suspended, a)
    BY <2>3, <1>6, <1>7 DEF Kept
  <2> QED BY <1>2, <1>6, <2>1, <2>2, <2>3
<1> QED BY <1>5, <1>10, <1>12, <1>13, <1>14, <1>15, <1>16, <1>17, Together

-------------------------------------------------------------------------------
(* The theorems *)

LEMMA InitIInv == Init => IInv
<1> USE AccountsAssumption
<1> SUFFICES ASSUME Init PROVE IInv
  OBVIOUS
<1>1. \A r \in OldRows : r \in Row /\ r.suspended = None /\ r.code \in OldCodes \cup {None}
  <2> SUFFICES ASSUME NEW r \in OldRows
               PROVE  r \in Row /\ r.suspended = None /\ r.code \in OldCodes \cup {None}
    OBVIOUS
  <2>1. /\ r.email \in Emails /\ r.role \in Roles /\ r.ver = 0 /\ r.suspended = None
        /\ r.deleted = FALSE /\ r.code \in OldCodes \cup {None}
        /\ r.link \in Identities \cup {None}
    BY DEF OldRows
  <2>2. r = [email |-> r.email, role |-> r.role, ver |-> 0, suspended |-> None,
             deleted |-> FALSE, code |-> r.code, link |-> r.link]
    BY DEF OldRows
  <2>3. \A e \in Emails, role \in Roles, k \in OldCodes \cup {None}, i \in Identities \cup {None} :
          [email |-> e, role |-> role, ver |-> 0, suspended |-> None,
           deleted |-> FALSE, code |-> k, link |-> i] \in Row
    BY DEF Row, Codes
  <2>4. r \in Row
    BY <2>1, <2>2, <2>3
  <2> QED BY <2>1, <2>4
<1>2. \A a \in Accounts : row[a] = None \/ row[a] \in OldRows
  BY DEF Init
<1>3. TypeOK
  <2>1. row \in [Accounts -> Row \cup {None}]
    BY <1>1 DEF Init
  <2> QED BY <2>1 DEF Init, TypeOK
<1>4. \A c \in Calls : CallOK(c) /\ EntityOK(c) /\ SeenOK(c)
  BY DEF Init, CallOK, EntityOK, SeenOK
<1>5. CodesOK /\ AdminsNotSuspended /\ SuspensionsAreLogged
  BY <1>1, <1>2 DEF CodesOK, AdminsNotSuspended, SuspensionsAreLogged, Codes
<1>6. CodeUsedOnce
  BY DEF Init, CodeUsedOnce, HasReset
<1> QED BY <1>3, <1>4, <1>5, <1>6 DEF IInv

LEMMA NextIInv == IInv /\ [Next]_vars => IInv'
<1> SUFFICES ASSUME IInv, [Next]_vars PROVE IInv'
  OBVIOUS
<1>1. ASSUME NEW c \in Calls, Step(c) PROVE IInv'
  BY <1>1, ArriveInv, InsertInv, CompareInv, WriteInv, LogInv, FailsInv, LogFailsInv DEF Step
<1>2. ASSUME NEW k \in Codes, CodeExpires(k) PROVE IInv'
  BY <1>2, CodeExpiresInv
<1>3. CASE UNCHANGED vars
  BY <1>3, StutterInv
<1> QED BY <1>1, <1>2, <1>3 DEF Next

\* The inductive invariant: while no change of an account was lost, versions only grow,
\* and what calls have read and are about to write is of its past.
THEOREM SpecIInv == Spec => []IInv
  BY InitIInv, NextIInv, PTL DEF Spec

\* What a reset, a deletion or a suspension revokes is refused from then on, unless two
\* changes of the account collided: the version that is written is above all that
\* logins have read.
THEOREM SpecSessionsEnd == Spec => []SessionsEnd
<1>1. ASSUME IInv PROVE SessionsEnd
  <2> SUFFICES ASSUME NEW c \in revoked, HasToken(c), Accepted(c), who[c] \notin lost
               PROVE  FALSE
    BY DEF SessionsEnd
  <2>1. c \in Calls /\ CallOK(c) /\ SeenOK(c)
    BY <1>1 DEF IInv, TypeOK
  <2>2. seen[c] # None /\ who[c] \in Accounts /\ seen[c] \in Row /\ row[who[c]] \in Row
    BY <1>1, <2>1 DEF HasToken, CallOK, IInv, TypeOK
  <2>3. seen[c].ver < row[who[c]].ver /\ row[who[c]].ver = seen[c].ver
    BY <2>1, <2>2 DEF SeenOK, Accepted
  <2> QED BY <2>2, <2>3, Fields
<1> QED BY <1>1, SpecIInv, PTL

\* No administrator is suspended unless two changes of the account collided.
THEOREM SpecAdminsNotSuspended == Spec => []AdminsNotSuspended
<1>1. IInv => AdminsNotSuspended
  BY DEF IInv
<1> QED BY <1>1, SpecIInv, PTL

\* A reset code resets a password once unless two changes of the account collided.
THEOREM SpecCodeUsedOnce == Spec => []CodeUsedOnce
<1>1. IInv => CodeUsedOnce
  BY DEF IInv
<1> QED BY <1>1, SpecIInv, PTL

\* A suspension of an account is one that the audit log has, or that was cut off before.
THEOREM SpecSuspensionsAreLogged == Spec => []SuspensionsAreLogged
<1>1. IInv => SuspensionsAreLogged
  BY DEF IInv
<1> QED BY <1>1, SpecIInv, PTL
===============================================================================
