-------------------------------- MODULE Accounts ------------------------------
(***************************************************************************)
(* The table users under concurrent calls of AuthService (OAuth login,     *)
(* registration, password reset, deletion) and AdminService (updateRole,   *)
(* suspendUser, unsuspendUser), and the access tokens that JwtStrategy     *)
(* accepts.  No operation opens a transaction: each reads one row, decides *)
(* on it, and writes columns of it after one or more awaits.               *)
(***************************************************************************)
EXTENDS Integers, FiniteSets

CONSTANTS
  Accounts,   \* the ids of users; an id is also the address of its deleted account
  Emails,     \* the addresses users give
  Identities, \* the ids an OAuth provider gives its users
  Calls,      \* the calls the server handles, each made once
  OldCodes,   \* the reset codes that were drawn before them
  None        \* an absent account, code, date or identity

VARIABLES
  row,      \* the row of each account in the table, or None
  expired,  \* the reset codes whose ten minutes are over
  audit,    \* the calls that have written to audit_logs
  pc,       \* where each call is, or how it ended
  op,       \* what it was asked to do
  who,      \* the account it is about
  seen,     \* the row it has read
  entity,   \* the row it means to leave
  cols,     \* the columns it writes
  revoked,  \* the logins that began before their account ended its sessions
  lost      \* the accounts on which a call wrote over a change it had not seen

table   == <<row, audit>>
calls   == <<pc, op, who, seen, entity, cols>>
history == <<revoked, lost>>
vars    == <<table, expired, calls, history>>

Roles   == {"SUBSCRIBER", "ORGANIZER", "ADMIN"}
Columns == {"email", "role", "ver", "suspended", "deleted", "code", "link"}

Codes   == Calls \cup OldCodes

\* A row of users.  A reset code is named by the call that drew it, and suspendedAt
\* by the call that set it: two draws, and two dates, differ.
Row == [email : Emails \cup Accounts, role : Roles, ver : Nat,
        suspended : Calls \cup {None}, deleted : BOOLEAN,
        code : Codes \cup {None}, link : Identities \cup {None}]

\* Mutant of Saves: suspendUser does not write to the audit log.
SavesUnlogged == {"role", "unsuspend"}

Saves      == {"role", "suspend", "unsuspend"} \* AdminService: save(user), then the log
Endings    == {"reset", "delete", "suspend"}   \* end the sessions of the account
Operations == Saves \cup Endings \cup {"login", "register", "request"}
Phases     == {"insert", "compare", "write", "log"}
Ended      == {"done", "failed"}

ASSUME AccountsAssumption ==
  /\ Emails \cap Accounts = {}
  /\ OldCodes \cap Calls = {}
  /\ None \notin Accounts \cup Emails \cup Identities \cup Codes \cup Row \cup Operations

-------------------------------------------------------------------------------
(* Rows *)

\* findOne leaves out the soft-deleted.
Active(a) == row[a] # None /\ ~row[a].deleted

\* The account that has address e.
Addressed(e) == {a \in Accounts : Active(a) /\ row[a].email = e}

NewRow(e, role, i) ==
  [email |-> e, role |-> role, ver |-> 0, suspended |-> None,
   deleted |-> FALSE, code |-> None, link |-> i]

\* r with other values in the columns an administrator changes.
Managed(r, role, ver, suspended) ==
  [email |-> r.email, role |-> role, ver |-> ver, suspended |-> suspended,
   deleted |-> r.deleted, code |-> r.code, link |-> r.link]

\* r with other values in the columns its user changes.
Owned(r, email, ver, deleted, code, link) ==
  [email |-> email, role |-> r.role, ver |-> ver, suspended |-> r.suspended,
   deleted |-> deleted, code |-> code, link |-> link]

\* The columns in which two rows differ.
Differing(r, s) == {k \in Columns : r[k] # s[k]}

\* Mutant of Merged: the whole entity is written.
WholeRow(r, s, K) == s

\* r with the columns K of s.
Merged(r, s, K) == [k \in Columns |-> IF k \in K THEN s[k] ELSE r[k]]

\* The unique indexes on email and on the identity, deleted rows included.
Unique(a, r) ==
  \A b \in Accounts \ {a} : row[b] # None =>
    row[b].email # r.email /\ (r.link = None \/ row[b].link # r.link)

-------------------------------------------------------------------------------
(* Tokens *)

\* Login c has answered with a token, which names its account and the version read.
HasToken(c) == op[c] = "login" /\ pc[c] = "done"

\* JwtStrategy.validate accepts the token of c.
Accepted(c) ==
  /\ Active(who[c])
  /\ row[who[c]].ver = seen[c].ver
  /\ row[who[c]].suspended = None

\* The logins to account a that have read its row.
Logins(a) == {c \in Calls : op[c] = "login" /\ who[c] = a /\ pc[c] # "failed"}

-------------------------------------------------------------------------------
(* What every call is made of *)

Goto(c, phase) == pc' = [pc EXCEPT ![c] = phase]

\* Call c has read the row of a, if there is one, and means to leave r in columns K.
Begin(c, phase, operation, a, was, r, K) ==
  /\ pc[c] = "new"
  /\ Goto(c, phase)
  /\ op' = [op EXCEPT ![c] = operation]
  /\ who' = [who EXCEPT ![c] = a]
  /\ seen' = [seen EXCEPT ![c] = was]
  /\ entity' = [entity EXCEPT ![c] = r]
  /\ cols' = [cols EXCEPT ![c] = K]
  /\ UNCHANGED <<table, expired, history>>

\* UPDATE of the columns K by id.
StartUpdate(c, operation, a, r, K) ==
  Active(a) /\ Begin(c, "write", operation, a, row[a], r, K)

\* save: the columns are found when it compares.
StartSave(c, operation, a, r) ==
  Active(a) /\ Begin(c, "compare", operation, a, row[a], r, {})

\* INSERT of a new user.
StartInsert(c, operation, e, role, i) ==
  Begin(c, "insert", operation, None, None, NewRow(e, role, i), {})

-------------------------------------------------------------------------------
(* AuthService *)

\* findUserForOAuthProfile: by identity, or else by address.
FoundForProfile(i, e) ==
  LET known == {a \in Accounts : Active(a) /\ row[a].link = i}
  IN  IF known # {} THEN known ELSE Addressed(e)

\* handleOAuthLogin: a user who is there is linked to the identity if need be.
StartLogin(c, i, e) ==
  \E a \in FoundForProfile(i, e) :
    LET r == row[a] IN
    StartUpdate(c, "login", a, Owned(r, r.email, r.ver, r.deleted, r.code, i),
                IF r.link = i THEN {} ELSE {"link"})

\* handleOAuthLogin: one who is not becomes a subscriber.
StartFirstLogin(c, i, e) ==
  /\ FoundForProfile(i, e) = {}
  /\ StartInsert(c, "login", e, "SUBSCRIBER", i)

\* register, registerOrganizer
StartRegister(c, e, role) ==
  /\ role # "ADMIN"
  /\ Addressed(e) = {}
  /\ StartInsert(c, "register", e, role, None)

\* requestPasswordReset; the mail, sent after the update, is no step of its own.
StartRequest(c, a) ==
  LET r == row[a] IN
  StartUpdate(c, "request", a, Owned(r, r.email, r.ver, r.deleted, c, r.link), {"code"})

\* Mutant of StartReset: the code stays.
StartResetKeepingCode(c, a) ==
  LET r == row[a] IN
  /\ StartUpdate(c, "reset", a, Owned(r, r.email, r.ver + 1, r.deleted, r.code, r.link),
                 {"ver"})
  /\ r.code # None /\ r.code \notin expired

\* resetPassword, by the one who has the code of the row.
StartReset(c, a) ==
  LET r == row[a] IN
  /\ StartUpdate(c, "reset", a, Owned(r, r.email, r.ver + 1, r.deleted, None, r.link),
                 {"ver", "code"})
  /\ r.code # None /\ r.code \notin expired

\* deleteAccount, by the one who has the password.
StartDelete(c, a) ==
  LET r == row[a] IN
  StartUpdate(c, "delete", a, Owned(r, a, r.ver + 1, TRUE, r.code, r.link),
              {"email", "deleted", "ver"})

-------------------------------------------------------------------------------
(* AdminService *)

\* Nobody is promoted to ADMIN.
StartUpdateRole(c, a, role) ==
  LET r == row[a] IN
  /\ role # "ADMIN"
  /\ StartSave(c, "role", a, Managed(r, role, r.ver, r.suspended))

\* Mutant of StartSuspend: administrators too.
StartSuspendAnyone(c, a) ==
  LET r == row[a] IN StartSave(c, "suspend", a, Managed(r, r.role, r.ver + 1, c))

\* Mutant of StartSuspend: the sessions go on.
StartSuspendOnly(c, a) ==
  LET r == row[a] IN
  /\ StartSave(c, "suspend", a, Managed(r, r.role, r.ver, c))
  /\ r.role # "ADMIN"

StartSuspend(c, a) ==
  LET r == row[a] IN
  /\ StartSave(c, "suspend", a, Managed(r, r.role, r.ver + 1, c))
  /\ r.role # "ADMIN"

StartUnsuspend(c, a) ==
  LET r == row[a] IN StartSave(c, "unsuspend", a, Managed(r, r.role, r.ver, None))

-------------------------------------------------------------------------------
(* The statements *)

\* The id of a new row is nobody's; its token, if any, has version 0.
Insert(c, a) ==
  /\ pc[c] = "insert"
  /\ row[a] = None
  /\ Unique(a, entity[c])
  /\ row' = [row EXCEPT ![a] = entity[c]]
  /\ who' = [who EXCEPT ![c] = a]
  /\ seen' = [seen EXCEPT ![c] = entity[c]]
  /\ entity' = [entity EXCEPT ![c] = None]
  /\ Goto(c, "done")
  /\ UNCHANGED <<audit, expired, op, cols, history>>

\* save reads the row again, a deleted one too, and compares.
Compare(c) ==
  /\ pc[c] = "compare"
  /\ cols' = [cols EXCEPT ![c] = Differing(entity[c], row[who[c]])]
  /\ Goto(c, "write")
  /\ UNCHANGED <<table, expired, op, who, seen, entity, history>>

\* The columns an operation sets from what it has read, written or not.
Assigned(c) ==
  IF op[c] \in Operations \ (Saves \cup Endings) THEN {}
  ELSE cols[c] \cup Differing(entity[c], seen[c])

\* A column of these has changed since it was read.
Overwrites(c) == Assigned(c) \cap Differing(row[who[c]], seen[c]) # {}

\* The columns are written, whatever the row has become.
Write(c) ==
  LET a == who[c]
      r == Merged(row[a], entity[c], cols[c])
  IN
  /\ pc[c] = "write"
  /\ Unique(a, r)
  /\ row' = [row EXCEPT ![a] = r]
  /\ Goto(c, IF op[c] \in Saves THEN "log" ELSE "done")
  /\ revoked' = IF op[c] \in Endings THEN revoked \cup Logins(a) ELSE revoked
  /\ lost' = IF Overwrites(c) THEN lost \cup {a} ELSE lost
  /\ entity' = [entity EXCEPT ![c] = None]
  /\ cols' = [cols EXCEPT ![c] = {}]
  /\ UNCHANGED <<audit, expired, op, who, seen>>

\* AuditLogService.log
Log(c) ==
  /\ pc[c] = "log"
  /\ audit' = audit \cup {c}
  /\ Goto(c, "done")
  /\ UNCHANGED <<row, expired, op, who, seen, entity, cols, history>>

-------------------------------------------------------------------------------
(* The environment *)

\* A statement fails, also on a unique index, or the process stops: before it has
\* written, nothing is left of the call.
Fails(c) ==
  /\ pc[c] \in {"insert", "compare", "write"}
  /\ Goto(c, "failed")
  /\ op' = [op EXCEPT ![c] = None]
  /\ who' = [who EXCEPT ![c] = None]
  /\ seen' = [seen EXCEPT ![c] = None]
  /\ entity' = [entity EXCEPT ![c] = None]
  /\ cols' = [cols EXCEPT ![c] = {}]
  /\ UNCHANGED <<table, expired, history>>

\* The audit log fails, or the process stops before it.
LogFails(c) ==
  /\ pc[c] = "log"
  /\ Goto(c, "failed")
  /\ UNCHANGED <<table, expired, op, who, seen, entity, cols, history>>

\* Ten minutes after code k was drawn.
CodeExpires(k) ==
  /\ \E a \in Accounts : row[a] # None /\ row[a].code = k
  /\ expired' = expired \cup {k}
  /\ UNCHANGED <<table, calls, history>>

-------------------------------------------------------------------------------
\* Accounts that were registered before, of any role: administrators are made in
\* the table.
OldRows ==
  [email : Emails, role : Roles, ver : {0}, suspended : {None}, deleted : {FALSE},
   code : OldCodes \cup {None}, link : Identities \cup {None}]

Init ==
  /\ row \in [Accounts -> OldRows \cup {None}]
  /\ \A a \in Accounts : row[a] # None => Unique(a, row[a])
  /\ expired = {} /\ audit = {} /\ revoked = {} /\ lost = {}
  /\ pc = [c \in Calls |-> "new"]
  /\ op = [c \in Calls |-> None]
  /\ who = [c \in Calls |-> None]
  /\ seen = [c \in Calls |-> None]
  /\ entity = [c \in Calls |-> None]
  /\ cols = [c \in Calls |-> {}]

Arrive(c) ==
  \/ \E i \in Identities, e \in Emails : StartLogin(c, i, e) \/ StartFirstLogin(c, i, e)
  \/ \E e \in Emails, role \in Roles : StartRegister(c, e, role)
  \/ \E a \in Accounts :
       \/ StartRequest(c, a) \/ StartReset(c, a) \/ StartDelete(c, a)
       \/ \E role \in Roles : StartUpdateRole(c, a, role)
       \/ StartSuspend(c, a) \/ StartUnsuspend(c, a)

Step(c) ==
  \/ Arrive(c)
  \/ \E a \in Accounts : Insert(c, a)
  \/ Compare(c) \/ Write(c) \/ Log(c)
  \/ Fails(c) \/ LogFails(c)

Next ==
  \/ \E c \in Calls : Step(c)
  \/ \E k \in Codes : CodeExpires(k)

Spec == Init /\ [][Next]_vars

-------------------------------------------------------------------------------
(* Correctness *)

\* Every variable has its type, and a call that writes has its row.
TypeOK ==
  /\ row \in [Accounts -> Row \cup {None}]
  /\ expired \subseteq Codes /\ audit \subseteq Calls /\ revoked \subseteq Calls
  /\ lost \subseteq Accounts
  /\ pc \in [Calls -> {"new"} \cup Phases \cup Ended]
  /\ op \in [Calls -> Operations \cup {None}]
  /\ who \in [Calls -> Accounts \cup {None}]
  /\ seen \in [Calls -> Row \cup {None}]
  /\ entity \in [Calls -> Row \cup {None}]
  /\ cols \in [Calls -> SUBSET Columns]

\* A login that began before a reset, deletion or suspension of its account was
\* written gives no access after it, unless two changes of the account collided.
SessionsEnd ==
  \A c \in revoked : HasToken(c) /\ Accepted(c) => who[c] \in lost

\* No administrator is suspended, though roles and suspensions change at the same
\* time, unless two such changes collided.
AdminsNotSuspended ==
  \A a \in Accounts : row[a] # None /\ row[a].role = "ADMIN" /\ row[a].suspended # None =>
    a \in lost

\* Call c has reset the password of its account with the code it saw.
HasReset(c) == op[c] = "reset" /\ pc[c] = "done"

\* A reset code resets a password once, unless two changes collided.
CodeUsedOnce ==
  \A c, d \in Calls :
    c # d /\ who[c] = who[d] /\ HasReset(c) /\ HasReset(d) /\ seen[c].code = seen[d].code =>
      who[c] \in lost

\* Call c has suspended account a, and logs it or was cut off before.
HasSuspended(c, a) ==
  op[c] = "suspend" /\ who[c] = a /\ (pc[c] \in {"log", "failed"} \/ c \in audit)

\* An account is suspended only by a suspension that the audit log has, or that was
\* cut off before it, also when a save brings an earlier suspension back.
SuspensionsAreLogged ==
  \A a \in Accounts : row[a] # None /\ row[a].suspended # None =>
    HasSuspended(row[a].suspended, a)

-------------------------------------------------------------------------------
(* The inductive invariant *)

\* What call c has at hand in each phase.
CallOK(c) ==
  /\ pc[c] = "new" => op[c] = None /\ seen[c] = None
  /\ pc[c] = "insert" =>
       /\ op[c] \in {"login", "register"} /\ who[c] = None /\ seen[c] = None
       /\ entity[c] # None
       /\ entity[c].role # "ADMIN" /\ entity[c].suspended = None /\ entity[c].code = None
  /\ pc[c] \in {"compare", "write"} =>
       /\ op[c] \in Operations \ {"register"}
       /\ entity[c] # None
       /\ pc[c] = "compare" => op[c] \in Saves
  /\ pc[c] = "log" => op[c] \in Saves
  /\ pc[c] \in {"compare", "write", "log", "done"} => seen[c] # None
  /\ seen[c] # None => who[c] \in Accounts /\ row[who[c]] # None
  /\ c \in audit => pc[c] = "done"
  /\ c \in revoked => pc[c] \notin {"new", "insert"}

\* What operation o of call c makes of the row r it has read: s, in columns K.
Makes(c, o, r, s, K) ==
  /\ s.ver = (IF o \in Endings THEN r.ver + 1 ELSE r.ver)
  /\ o = "login" => K \subseteq {"link"}
  /\ o = "request" => K = {"code"} /\ s.code = c
  /\ o = "reset" => K = {"ver", "code"} /\ r.code # None /\ s.code = None
  /\ o = "delete" => K = {"email", "deleted", "ver"}
  /\ o = "role" => s.role # "ADMIN" /\ s.suspended = r.suspended /\ s.code = r.code
  /\ o = "suspend" => /\ r.role # "ADMIN" /\ s.role = r.role
                     /\ s.suspended = c /\ s.code = r.code
  /\ o = "unsuspend" => s.role = r.role /\ s.suspended = None /\ s.code = r.code

EntityOK(c) ==
  pc[c] \in {"compare", "write"} => Makes(c, op[c], seen[c], entity[c], cols[c])

\* What c has read was so: codes and suspensions have their calls, and unless changes
\* collided, versions have only grown since, and nobody has become an administrator.
SeenOK(c) ==
  LET r == seen[c]
      now == row[who[c]]
  IN
  r # None =>
    /\ r.code \in Calls => pc[r.code] = "done"
    /\ pc[c] \in {"compare", "write"} /\ r.suspended # None => HasSuspended(r.suspended, who[c])
    /\ who[c] \notin lost =>
         /\ r.ver <= now.ver
         /\ now.role = "ADMIN" => r.role = "ADMIN"
         /\ pc[c] = "write" /\ op[c] = "suspend" /\ "ver" \notin cols[c] => r.ver < now.ver
         /\ c \in revoked => r.ver < now.ver
         /\ HasReset(c) => r.code # None /\ now.code # r.code

CodesOK == \A a \in Accounts : row[a] # None /\ row[a].code \in Calls => pc[row[a].code] = "done"

IInv ==
  /\ TypeOK
  /\ \A c \in Calls : CallOK(c) /\ EntityOK(c) /\ SeenOK(c)
  /\ CodesOK /\ AdminsNotSuspended /\ CodeUsedOnce /\ SuspensionsAreLogged

-------------------------------------------------------------------------------
(* What the code says of itself, and does not do *)

\* "Check if tokenVersion has been incremented (session invalidation)"
RevokedStaysRevoked ==
  \A c \in revoked : HasToken(c) => ~Accepted(c)
===============================================================================
