--------------------------------- MODULE Queue --------------------------------
(***************************************************************************)
(* What WaitlistService promises of the waitlist of an event, without its  *)
(* calls, reads and writes: who applies is behind those on the list, and   *)
(* is notified once nobody ahead waits who can be mailed.                  *)
(***************************************************************************)
EXTENDS Integers

CONSTANTS
  Users,     \* the users
  EntryIds,  \* the ids of entries
  None       \* no user

VARIABLES
  place,     \* where each entry is
  owner,     \* its user, or None
  ahead,     \* the entries that were on the list when it was made
  deleted    \* the users whose account is deleted

vars == <<place, owner, ahead, deleted>>

OnList == {e \in EntryIds : place[e] \in {"waiting", "notified"}}

\* Everybody ahead of e has been notified, has left, or cannot be mailed.
MayNotify(e) ==
  \A f \in ahead[e] : place[f] = "waiting" => owner[f] \in deleted

Init ==
  /\ place = [e \in EntryIds |-> "unused"]
  /\ owner = [e \in EntryIds |-> None]
  /\ ahead = [e \in EntryIds |-> {}]
  /\ deleted = {}

Apply(e, u) ==
  /\ place[e] = "unused"
  /\ place' = [place EXCEPT ![e] = "inserting"]
  /\ owner' = [owner EXCEPT ![e] = u]
  /\ ahead' = [ahead EXCEPT ![e] = OnList]
  /\ UNCHANGED deleted

Join(e) ==
  /\ place[e] = "inserting"
  /\ place' = [place EXCEPT ![e] = "waiting"]
  /\ UNCHANGED <<owner, ahead, deleted>>

\* A user leaves, or a join is rolled back.
Leave(e) ==
  /\ place[e] # "unused"
  /\ place' = [place EXCEPT ![e] = "gone"]
  /\ UNCHANGED <<owner, ahead, deleted>>

\* An entry that has left while it is notified comes back as notified.
Notify(e) ==
  /\ place[e] \in {"waiting", "notified", "gone"}
  /\ MayNotify(e)
  /\ place' = [place EXCEPT ![e] = "notified"]
  /\ UNCHANGED <<owner, ahead, deleted>>

DeleteAccount(u) ==
  /\ deleted' = deleted \cup {u}
  /\ UNCHANGED <<place, owner, ahead>>

Next ==
  \/ \E e \in EntryIds : \/ \E u \in Users : Apply(e, u)
                         \/ Join(e) \/ Leave(e) \/ Notify(e)
  \/ \E u \in Users : DeleteAccount(u)

Spec == Init /\ [][Next]_vars
===============================================================================
